---- MODULE Spec2Model ----
(***************************************************************************)
(* The publication knowledge graph of backend/data_processor.py            *)
(* (PublicationProcessor): the content store, the graph build, similarity, *)
(* clustering and full-text matching.  Text is modelled as sequences of    *)
(* one-character strings, so tokenisation, case folding, substring search  *)
(* and keyword lengths are computed and not assumed.                       *)
(***************************************************************************)
EXTENDS Integers, Sequences, FiniteSets, TLC

VARIABLES
    publications_df,   \* the corpus: a sequence of [Title, Link] rows
    store,             \* cache_dir: cache file name -> cached document
    knowledge_graph,   \* self.knowledge_graph
    persisted,         \* cache_dir/knowledge_graph.json
    saved_graph,       \* history: the graph object that the last successful save wrote
    result,            \* outcome of the last call
    probe              \* inputs and outcome of the last pure-function evaluation

vars == <<publications_df, store, knowledge_graph, persisted, saved_graph, result, probe>>

----------------------------------------------------------------------------
(* Characters and strings *)

UpperCase == <<"A", "B", "C", "D", "E", "F", "G", "H", "I", "J", "K", "L", "M",
               "N", "O", "P", "Q", "R", "S", "T", "U", "V", "W", "X", "Y", "Z">>

LowerCase == <<"a", "b", "c", "d", "e", "f", "g", "h", "i", "j", "k", "l", "m",
               "n", "o", "p", "q", "r", "s", "t", "u", "v", "w", "x", "y", "z">>

Digits == {"0", "1", "2", "3", "4", "5", "6", "7", "8", "9"}

Range(s) == {s[i] : i \in DOMAIN s}

UpperSet == Range(UpperCase)

Letters == Range(UpperCase) \cup Range(LowerCase)

\* \w of the regular expressions
WordChars == Letters \cup Digits \cup {"_"}

IsUpper(c) == c \in UpperSet

IsLetter(c) == c \in Letters

IsWordChar(c) == c \in WordChars

IsSpace(c) == c = " "

UpperToLower == [c \in UpperSet |-> LowerCase[CHOOSE i \in DOMAIN UpperCase : UpperCase[i] = c]]

LowerChar(c) == IF IsUpper(c) THEN UpperToLower[c] ELSE c

\* str.lower()
Lower(s) == [i \in DOMAIN s |-> LowerChar(s[i])]

\* str.isalpha(): non-empty and letters only
IsAlpha(w) == w # <<>> /\ \A i \in DOMAIN w : IsLetter(w[i])

----------------------------------------------------------------------------
(* The corpus and what the network serves *)

title1 == <<"C", "e", "l", "l", " ", "g", "r", "o", "w", "t", "h">>
title2 == <<"g", "r", "o", "w", "t", "h">>
title3 == <<"B", "o", "n", "e", " ", "l", "o", "s", "s">>

abstract1 == <<"C", "e", "l", "l", " ", "g", "r", "o", "w", "t", "h", " ", "a", "n", "d", " ",
               "b", "o", "n", "e", " ", "g", "r", "o", "w", "t", "h", ".">>
conclusion1 == <<"b", "o", "n", "e", " ", "g", "r", "o", "w", "t", "h", " ", "4", "2">>
abstract2 == <<"l", "o", "s", "s", " ", "o", "f", " ", "d", "n", "a">>
abstract3 == <<"L", "o", "s", "s", " ", "o", "f", " ", "b", "o", "n", "e">>
conclusion3 == <<"t", "h", "e", " ", "c", "e", "l", "l">>

\* pd.read_csv(csv_path): rows of Title and Link; the second title is also a word
\* of the texts
MainCorpus ==
    << [Title |-> title1, Link |-> "u1"], [Title |-> title2, Link |-> "u2"],
       [Title |-> title3, Link |-> "u3"] >>

Sections(abstract, results, conclusion, title) ==
    [abstract |-> abstract, results |-> results, conclusion |-> conclusion,
     full_text |-> title \o <<" ">> \o abstract \o <<" ">> \o conclusion]

Urls == {"u1", "u2", "u3"}

\* the sections BeautifulSoup extracts from the page a URL serves
WebPage(url) ==
    CASE url = "u1" -> Sections(abstract1, <<>>, conclusion1, title1)
      [] url = "u2" -> Sections(abstract2, <<>>, <<>>, title2)
      [] url = "u3" -> Sections(abstract3, <<>>, conclusion3, title3)

----------------------------------------------------------------------------
(* Tokenisation *)

\* abstract and conclusion twice, results once
CombinedText(content) ==
    content.abstract \o <<" ">> \o content.abstract \o <<" ">> \o content.conclusion
        \o <<" ">> \o content.conclusion \o <<" ">> \o content.results

\* the positions where a run of characters of class C starts
RunStarts(text, C) ==
    {i \in DOMAIN text : text[i] \in C /\ (i = 1 \/ text[i - 1] \notin C)}

\* the last position of the run of class C that starts at i
RunEnd(text, i, C) ==
    CHOOSE j \in i..Len(text) :
        /\ \A m \in i..j : text[m] \in C
        /\ (j = Len(text) \/ text[j + 1] \notin C)

\* the k-th smallest element of a set of positions
Nth(S, k) == CHOOSE s \in S : Cardinality({t \in S : t < s}) = k - 1

\* the maximal runs of characters of class C, in order
Runs(text, C) ==
    LET starts == RunStarts(text, C) IN
    [k \in 1..Cardinality(starts) |->
        SubSeq(text, Nth(starts, k), RunEnd(text, Nth(starts, k), C))]

\* re.findall(r'\b\w+\b', text)
RegexWords(text) == Runs(text, WordChars)

\* str.split(): the runs of characters that are not white space
Split(text) == Runs(text, Range(text) \ {" "})

\* the characters word_tokenize keeps inside a token: a hyphen does not split
TokenChars == WordChars \cup {"-"}

\* the tokens of a text as word_tokenize gives them: the runs of token
\* characters, and every other punctuation mark a token of its own
Tokenize(text) ==
    LET starts == RunStarts(text, TokenChars)
                      \cup {i \in DOMAIN text : text[i] \notin TokenChars /\ ~IsSpace(text[i])}
    IN [k \in 1..Cardinality(starts) |->
           LET i == Nth(starts, k)
           IN IF text[i] \in TokenChars THEN SubSeq(text, i, RunEnd(text, i, TokenChars))
              ELSE <<text[i]>>]

\* the texts the corpus gives rise to, with their lower-case forms
CorpusTexts ==
    LET pages == {WebPage(u) : u \in Urls}
        raw == {title1, title2, title3, <<>>}
                 \cup {d.abstract : d \in pages} \cup {d.results : d \in pages}
                 \cup {d.conclusion : d \in pages} \cup {d.full_text : d \in pages}
                 \cup {CombinedText(d) : d \in pages}
    IN raw \cup {Lower(t) : t \in raw}

\* the tokens of the corpus texts, computed once
TokenTable == [t \in CorpusTexts |-> Tokenize(t)]

\* word_tokenize(text)
word_tokenize(text) == IF text \in CorpusTexts THEN TokenTable[text] ELSE Tokenize(text)

\* re.findall(r'\b[a-zA-Z]{k,}\b', text): the runs of word characters that are
\* letters only and at least k long
FindAlphaWords(text, k) ==
    SelectSeq(RegexWords(text), LAMBDA w : IsAlpha(w) /\ Len(w) >= k)

\* ' '.join(words)
RECURSIVE JoinRange(_, _, _)
JoinRange(words, lo, hi) ==
    IF lo > hi THEN <<>>
    ELSE IF lo = hi THEN words[lo]
    ELSE LET mid == (lo + hi) \div 2
         IN JoinRange(words, lo, mid) \o <<" ">> \o JoinRange(words, mid + 1, hi)

Join(words) == JoinRange(words, 1, Len(words))

\* self.stop_words, restricted to the words of the texts below
stop_words ==
    { <<"a">>, <<"o", "f">>, <<"o", "n">>, <<"i", "n">>, <<"t", "h", "e">>,
      <<"a", "n", "d">>, <<"u", "n", "d", "e", "r">> }

----------------------------------------------------------------------------
(* Counter and most_common *)

\* first-occurrence order of the distinct elements of a sequence
Distinct(s) ==
    LET firsts == {i \in DOMAIN s : \A j \in 1..(i - 1) : s[j] # s[i]}
    IN [k \in 1..Cardinality(firsts) |->
           s[CHOOSE i \in firsts : Cardinality({j \in firsts : j < i}) = k - 1]]

Count(s, x) == Cardinality({i \in DOMAIN s : s[i] = x})

\* Counter(words).items(): <<word, count>> pairs in first-occurrence order
Counter(words) ==
    LET d == Distinct(words) IN [i \in DOMAIN d |-> <<d[i], Count(words, d[i])>>]

\* sorted(items, key=lambda x: x[2], reverse=True): stable, largest first; the
\* item at position i of the input lands after those that are larger and after
\* the equal ones that came before it
SortDesc(items) ==
    LET rank(i) == Cardinality({j \in DOMAIN items :
                                   \/ items[j][2] > items[i][2]
                                   \/ (items[j][2] = items[i][2] /\ j < i)})
    IN [k \in DOMAIN items |-> items[CHOOSE i \in DOMAIN items : rank(i) = k - 1]]

Take(s, n) == SubSeq(s, 1, IF n < Len(s) THEN n ELSE Len(s))

\* Counter(words).most_common(n)
most_common(words, n) == Take(SortDesc(Counter(words)), n)

Firsts(pairs) == [i \in DOMAIN pairs |-> pairs[i][1]]

TopKeywords == 10

\* the body of extract_keywords(text, n=10)
ExtractKeywords(text) ==
    IF text = <<>> THEN <<>>
    ELSE LET words == word_tokenize(Lower(text))
             filtered_words == SelectSeq(words, LAMBDA w : IsAlpha(w) /\ w \notin stop_words)
         IN most_common(filtered_words, TopKeywords)

KeywordTable == [t \in CorpusTexts |-> ExtractKeywords(t)]

\* extract_keywords(text, n=10), looked up for the corpus texts
extract_keywords(text) == IF text \in CorpusTexts THEN KeywordTable[text] ELSE ExtractKeywords(text)

----------------------------------------------------------------------------
(* The graph: networkx.Graph with insertion-ordered nodes and adjacency *)

EmptyFcn == [x \in {} |-> 0]

EmptyGraph == [nodes |-> <<>>, attr |-> EmptyFcn, adj |-> EmptyFcn, eattr |-> EmptyFcn]

HasNode(G, n) == n \in DOMAIN G.attr

\* G.add_node(n, **a): a new node is appended, an existing one has its
\* attributes updated and keeps the ones a does not name
add_node(G, n, a) ==
    IF HasNode(G, n)
    THEN [G EXCEPT !.attr = (n :> (a @@ G.attr[n])) @@ G.attr]
    ELSE [G EXCEPT !.nodes = Append(G.nodes, n),
                   !.attr = (n :> a) @@ G.attr,
                   !.adj = (n :> <<>>) @@ G.adj]

\* G.add_edge(u, v, **a) between existing nodes: one edge per unordered pair
add_edge(G, u, v, a) ==
    IF {u, v} \in DOMAIN G.eattr
    THEN [G EXCEPT !.eattr = ({u, v} :> (a @@ G.eattr[{u, v}])) @@ G.eattr]
    ELSE [G EXCEPT !.eattr = ({u, v} :> a) @@ G.eattr,
                   !.adj = IF u = v
                           THEN (u :> Append(G.adj[u], v)) @@ G.adj
                           ELSE (u :> Append(G.adj[u], v)) @@ (v :> Append(G.adj[v], u)) @@ G.adj]

\* G.neighbors(n)
neighbors(G, n) == G.adj[n]

NodeType(G, n) == G.attr[n].type

\* graph equality as networkx defines it: nodes, edges and attributes, not order
SameGraph(G, H) ==
    /\ Range(G.nodes) = Range(H.nodes)
    /\ G.attr = H.attr
    /\ G.eattr = H.eattr

----------------------------------------------------------------------------
(* The content store *)

\* f"{hash(url)}.json": the name of a URL's cache file (within one process)
hash(url) ==
    CASE url = "u1" -> "h1" [] url = "u2" -> "h2" [] url = "u3" -> "h3"

CacheFiles == {"h1", "h2", "h3"}

\* a cache file is absent, unreadable as JSON, or holds a document
Absent == [kind |-> "absent"]
Corrupt == [kind |-> "corrupt"]

Document(sections, source, status) ==
    [kind |-> "doc", abstract |-> sections.abstract, results |-> sections.results,
     conclusion |-> sections.conclusion, full_text |-> sections.full_text,
     source |-> source, status |-> status]

NoData == [kind |-> "none"]

\* a fetch that does not look for the cache file: the page is always requested and
\* the file rewritten
fetch_refreshing(url, cache, st, netOK) ==
    LET cache_file == hash(url) IN
    IF netOK
    THEN LET publication_data == Document(WebPage(url), "web", "success") IN
         [raised |-> "none", data |-> publication_data,
          store |-> IF cache THEN [st EXCEPT ![cache_file] = publication_data] ELSE st]
    ELSE [raised |-> "AttributeError", data |-> NoData, store |-> st]

\* fetch_publication_content(url, cache) on store st, the network answering
\* (netOK) or failing.  raised names the exception that leaves the call.
fetch_publication_content(url, cache, st, netOK) ==
    LET cache_file == hash(url) IN
    IF cache /\ st[cache_file] # Absent
    THEN IF st[cache_file] = Corrupt
         THEN [raised |-> "JSONDecodeError", data |-> NoData, store |-> st]
         ELSE [raised |-> "none", data |-> st[cache_file], store |-> st]
    ELSE IF netOK
    THEN LET publication_data == Document(WebPage(url), "web", "success") IN
         [raised |-> "none", data |-> publication_data,
          store |-> IF cache THEN [st EXCEPT ![cache_file] = publication_data] ELSE st]
    \* the handler calls self.get_title_from_url, which the class does not define
    ELSE [raised |-> "AttributeError", data |-> NoData, store |-> st]

\* every outcome of one fetch
FetchOutcomes(url, cache, st) ==
    {fetch_publication_content(url, cache, st, netOK) : netOK \in BOOLEAN}

----------------------------------------------------------------------------
(* Theme extraction: identify_publication_themes *)

NumThemes == 5
TfidfMinWords == 10
MaxSample == 5

Min(a, b) == IF a < b THEN a ELSE b

\* the tokens kept for theme analysis: alphabetic, longer than 3, no stop word
ThemeWordsOf(text) ==
    SelectSeq(word_tokenize(Lower(text)),
              LAMBDA w : IsAlpha(w) /\ Len(w) > 3 /\ w \notin stop_words)

ThemeWordsTable == [t \in CorpusTexts |-> ThemeWordsOf(t)]

ThemeWords(text) == IF text \in CorpusTexts THEN ThemeWordsTable[text] ELSE ThemeWordsOf(text)

\* the title's tokens: [a-zA-Z]{3,}, lower-cased, no stop word
TitleWordsOf(title) ==
    SelectSeq([i \in DOMAIN FindAlphaWords(title, 3) |-> Lower(FindAlphaWords(title, 3)[i])],
              LAMBDA w : w \notin stop_words)

TitleWordsTable == [t \in CorpusTexts |-> TitleWordsOf(t)]

TitleWords(title) == IF title \in CorpusTexts THEN TitleWordsTable[title] ELSE TitleWordsOf(title)

\* a comparison abstract's tokens: [a-zA-Z]{4,} of the lower-cased text, no stop word
PeerWordsOf(other_text) ==
    SelectSeq(FindAlphaWords(Lower(other_text), 4), LAMBDA w : w \notin stop_words)

PeerWordsTable == [t \in CorpusTexts |-> PeerWordsOf(t)]

PeerWords(other_text) ==
    IF other_text \in CorpusTexts THEN PeerWordsTable[other_text] ELSE PeerWordsOf(other_text)

\* the documents handed to the vectorizer
CorpusDocuments == {Join(ThemeWords(t)) : t \in CorpusTexts} \cup {Join(PeerWords(t)) : t \in CorpusTexts}

\* an ascending sequence of the elements of a set of numbers
Ascending(S) ==
    [k \in 1..Cardinality(S) |-> CHOOSE x \in S : Cardinality({y \in S : y < x}) = k - 1]

\* publications_df.sample(k): the sets of k row numbers
Samples(k) == {S \in SUBSET DOMAIN publications_df : Cardinality(S) = k}

\* one comparison row: its abstract is fetched through the store; an exception
\* is caught and the row skipped
PeerStep(s, row, publication_title) ==
    IF row.Title = publication_title THEN {s}
    ELSE { IF f.raised # "none" THEN [docs |-> s.docs, store |-> f.store]
           ELSE LET other_text == f.data.abstract
                    other_filtered == PeerWords(other_text)
                IN [docs |-> IF other_text # <<>> /\ Len(other_filtered) > 0
                             THEN Append(s.docs, Join(other_filtered)) ELSE s.docs,
                    store |-> f.store]
           : f \in FetchOutcomes(row.Link, TRUE, s.store) }

RECURSIVE PeerOutcomesFrom(_, _, _, _)
PeerOutcomesFrom(rows, i, publication_title, acc) ==
    IF i > Len(rows) THEN acc
    ELSE PeerOutcomesFrom(rows, i + 1, publication_title,
             UNION {PeerStep(s, publications_df[rows[i]], publication_title) : s \in acc})

PeerOutcomes(rows, publication_title, acc) == PeerOutcomesFrom(rows, 1, publication_title, acc)

\* 1000 * (ln((1 + n) / (1 + df)) + 1), the smoothed idf of TfidfVectorizer,
\* for n documents and document frequency df
IdfTable ==
    << <<1000>>,
       <<1405, 1000>>,
       <<1693, 1288, 1000>>,
       <<1916, 1511, 1223, 1000>>,
       <<2099, 1693, 1405, 1182, 1000>>,
       <<2253, 1847, 1560, 1336, 1154, 1000>> >>

LetterIndex(c) == IF IsLetter(c) THEN CHOOSE i \in DOMAIN LowerCase : LowerCase[i] = LowerChar(c) ELSE 0

\* a sorts before b in the vocabulary
LexLess(a, b) ==
    \/ Len(a) < Len(b) /\ SubSeq(b, 1, Len(a)) = a
    \/ \E i \in DOMAIN a \cap DOMAIN b :
           /\ SubSeq(a, 1, i - 1) = SubSeq(b, 1, i - 1)
           /\ LetterIndex(a[i]) < LetterIndex(b[i])

\* TfidfVectorizer's tokens: \b\w\w+\b of the lower-cased document
VectorizerTokensOf(doc) ==
    SelectSeq(RegexWords(Lower(doc)),
              LAMBDA w : Len(w) >= 2 /\ \A i \in DOMAIN w : IsWordChar(w[i]))

VectorizerTable == [d \in CorpusDocuments |-> VectorizerTokensOf(d)]

VectorizerTokens(doc) ==
    IF doc \in CorpusDocuments THEN VectorizerTable[doc] ELSE VectorizerTokensOf(doc)

\* the sum of the squared weights of the terms of S, one weight value at a time
RECURSIVE SumSquares(_, _)
SumSquares(S, w) ==
    IF S = {} THEN 0
    ELSE LET v == w[CHOOSE x \in S : TRUE]
             same == {t \in S : w[t] = v}
         IN v * v * Cardinality(same) + SumSquares(S \ same, w)

\* the n first terms of S by decreasing weight; equal weights in reverse
\* vocabulary order (argsort ascending, the last n, reversed)
RankDesc(S, w, n) ==
    LET before(t) == Cardinality({y \in S : w[y] > w[t] \/ (w[y] = w[t] /\ LexLess(t, y))})
    IN [k \in 1..Min(n, Cardinality(S)) |-> CHOOSE t \in S : before(t) = k - 1]

\* the vectorizer's tokens of each document
RECURSIVE FitTokens(_)
FitTokens(documents) ==
    IF documents = <<>> THEN <<>>
    ELSE <<VectorizerTokens(Head(documents))>> \o FitTokens(Tail(documents))

\* the TF-IDF weights of the first document's terms before normalisation: the
\* term's count times its smoothed idf over the documents
TermWeights(toks) ==
    [t \in Range(toks[1]) |->
        Count(toks[1], t)
          * IdfTable[Len(toks)][Cardinality({i \in DOMAIN toks : t \in Range(toks[i])})]]

\* the terms by score, the best 2 * num_themes, those scoring above 0.1, and of
\* these the first num_themes; a score is the weight over the norm
ScoredTerms(weight, num_themes) ==
    LET norm2 == SumSquares(DOMAIN weight, weight)
    IN Take(SelectSeq(RankDesc(DOMAIN weight, weight, 2 * num_themes),
                      LAMBDA t : weight[t] * weight[t] > norm2 \div 100),
            num_themes)

\* the TF-IDF branch over the documents, the publication's own first
TfidfThemes(documents, num_themes) ==
    ScoredTerms(TermWeights(FitTokens(documents)), num_themes)

\* the themes before the title backfill, for one sample of comparison rows
ContentThemes(publication_title, filtered_words, num_themes, st, sample) ==
    IF Len(filtered_words) > TfidfMinWords
    THEN IF Min(MaxSample, Len(publications_df) - 1) > 0
         THEN { [themes |-> IF Len(p.docs) > 1
                            THEN TfidfThemes(p.docs, num_themes)
                            ELSE Firsts(most_common(filtered_words, num_themes)),
                 store |-> p.store]
                : p \in PeerOutcomes(Ascending(sample), publication_title,
                                     {[docs |-> <<Join(filtered_words)>>, store |-> st]}) }
         ELSE {[themes |-> Firsts(most_common(filtered_words, num_themes)), store |-> st]}
    ELSE {[themes |-> Firsts(most_common(filtered_words, num_themes)), store |-> st]}

\* the title backfill, the at-least-one-theme rule and the final cut
FinishThemes(themes, publication_title, num_themes) ==
    LET title_words == TitleWords(publication_title)
        filled == IF Len(themes) < num_themes
                  THEN themes \o Firsts(most_common(title_words, num_themes - Len(themes)))
                  ELSE themes
        ensured == IF filled = <<>> /\ title_words # <<>> THEN <<title_words[1]>> ELSE filled
    IN Take(ensured, num_themes)

\* identify_publication_themes(publication_title, content, num_themes) on store
\* st: every outcome [themes, store] over the random sample and the network
identify_publication_themes(publication_title, content, num_themes, st) ==
    LET filtered_words == ThemeWords(CombinedText(content))
        outcomes == UNION { ContentThemes(publication_title, filtered_words, num_themes, st, sample)
                            : sample \in Samples(Min(MaxSample, Len(publications_df) - 1)) }
    IN { [themes |-> FinishThemes(o.themes, publication_title, num_themes), store |-> o.store]
         : o \in outcomes }

----------------------------------------------------------------------------
(* The graph build: build_knowledge_graph *)

MinKeywordLen == 3

\* the keyword loop of one section: a keyword node and an edge per keyword
\* longer than 3 characters
RECURSIVE AddKeywordsFrom(_, _, _, _, _)
AddKeywordsFrom(G, title, keywords, section, i) ==
    IF i > Len(keywords) THEN G
    ELSE LET keyword == keywords[i][1]
             count == keywords[i][2]
             G1 == IF Len(keyword) > MinKeywordLen
                   THEN add_edge(add_node(G, keyword, [type |-> "keyword"]), title, keyword,
                                 [weight |-> count, section |-> section])
                   ELSE G
         IN AddKeywordsFrom(G1, title, keywords, section, i + 1)

AddKeywords(G, title, keywords, section) == AddKeywordsFrom(G, title, keywords, section, 1)

\* a loop body that takes the conclusion's keywords before the abstract's
AddPublicationAbstractLast(G, title, url, publication_themes, content) ==
    LET G1 == add_node(G, title, [type |-> "publication", url |-> url,
                                  themes |-> publication_themes])
        G2 == AddKeywords(G1, title, extract_keywords(content.conclusion), "conclusion")
    IN AddKeywords(G2, title, extract_keywords(content.abstract), "abstract")

\* the body of the loop for one row, after its fetch and theme extraction
AddPublication(G, title, url, publication_themes, content) ==
    LET G1 == add_node(G, title, [type |-> "publication", url |-> url,
                                  themes |-> publication_themes])
        G2 == AddKeywords(G1, title, extract_keywords(content.abstract), "abstract")
    IN AddKeywords(G2, title, extract_keywords(content.conclusion), "conclusion")

\* one iteration on s = [raised, g, fresh, store]: g is self.knowledge_graph,
\* fresh what the same iterations make of an empty graph
ProcessRow(s, row) ==
    UNION { IF f.raised # "none"
            THEN {[s EXCEPT !.raised = f.raised, !.store = f.store]}
            ELSE { [raised |-> "none",
                    g |-> AddPublication(s.g, row.Title, row.Link, t.themes, f.data),
                    fresh |-> AddPublication(s.fresh, row.Title, row.Link, t.themes, f.data),
                    store |-> t.store]
                   : t \in identify_publication_themes(row.Title, f.data, NumThemes, f.store) }
            : f \in FetchOutcomes(row.Link, TRUE, s.store) }

\* the loop over publications_df.head(num_publications); an exception ends it
RECURSIVE BuildRows(_, _, _)
BuildRows(S, i, num_publications) ==
    IF i > num_publications THEN S
    ELSE BuildRows(UNION { IF s.raised = "none" THEN ProcessRow(s, publications_df[i]) ELSE {s}
                           : s \in S },
                   i + 1, num_publications)

\* G.edges(): each edge once, from the endpoint that comes first in node order
RECURSIVE EdgeList(_, _, _)
EdgeList(G, i, seen) ==
    IF i > Len(G.nodes) THEN <<>>
    ELSE LET n == G.nodes[i]
             mine == SelectSeq(G.adj[n], LAMBDA m : m \notin seen)
         IN [j \in DOMAIN mine |-> <<n, mine[j]>>] \o EdgeList(G, i + 1, seen \cup {n})

Without(r, keys) == [k \in DOMAIN r \ keys |-> r[k]]

\* a serialisation that writes the links without their attributes
node_link_data_bare_links(G) ==
    LET edges == EdgeList(G, 1, {}) IN
    [kind |-> "json",
     nodes |-> [i \in DOMAIN G.nodes |-> ("id" :> G.nodes[i]) @@ G.attr[G.nodes[i]]],
     links |-> [j \in DOMAIN edges |->
                   ("source" :> edges[j][1]) @@ ("target" :> edges[j][2])]]

\* json.dump(nx.node_link_data(G)): node records with their id, link records
\* with source and target
node_link_data(G) ==
    LET edges == EdgeList(G, 1, {}) IN
    [kind |-> "json",
     nodes |-> [i \in DOMAIN G.nodes |-> ("id" :> G.nodes[i]) @@ G.attr[G.nodes[i]]],
     links |-> [j \in DOMAIN edges |->
                   ("source" :> edges[j][1]) @@ ("target" :> edges[j][2])
                       @@ G.eattr[{edges[j][1], edges[j][2]}]]]

RECURSIVE LoadNodes(_, _, _)
LoadNodes(G, nodes, i) ==
    IF i > Len(nodes) THEN G
    ELSE LoadNodes(add_node(G, nodes[i].id, Without(nodes[i], {"id"})), nodes, i + 1)

\* add_edge as node_link_graph uses it: a missing endpoint is created
add_edge_creating(G, u, v, a) ==
    LET G1 == IF HasNode(G, u) THEN G ELSE add_node(G, u, EmptyFcn)
        G2 == IF HasNode(G1, v) THEN G1 ELSE add_node(G1, v, EmptyFcn)
    IN add_edge(G2, u, v, a)

RECURSIVE LoadLinks(_, _, _)
LoadLinks(G, links, i) ==
    IF i > Len(links) THEN G
    ELSE LoadLinks(add_edge_creating(G, links[i].source, links[i].target,
                                     Without(links[i], {"source", "target"})),
                   links, i + 1)

\* nx.node_link_graph(json.load(file))
node_link_graph(graph_data) ==
    LoadLinks(LoadNodes(EmptyGraph, graph_data.nodes, 1), graph_data.links, 1)

NoFile == [kind |-> "none"]
Invalid == [kind |-> "invalid"]

\* the save at the end of a build: the file is written, cannot be opened, or is
\* left truncated by a failed write; a failure is caught
SaveOutcome(G, old, disk) ==
    CASE disk = "ok" -> node_link_data(G)
      [] disk = "open_failed" -> old
      [] disk = "write_failed" -> Invalid

BuildResult(num_publications, use_cache, raised, loaded, saved, fresh) ==
    [op |-> "build", num_publications |-> num_publications, use_cache |-> use_cache,
     raised |-> raised, loaded |-> loaded, saved |-> saved, fresh |-> fresh]

\* the cached-graph branch without its return: the rows are processed on top of
\* the loaded graph
BuildFromCacheThenRows(num_publications, use_cache) ==
    /\ use_cache /\ persisted.kind = "json"
    /\ \E o \in BuildRows({[raised |-> "none", g |-> node_link_graph(persisted),
                           fresh |-> EmptyGraph, store |-> store]}, 1, num_publications) :
          /\ knowledge_graph' = o.g
          /\ store' = o.store
          /\ result' = BuildResult(num_publications, use_cache, o.raised, TRUE, FALSE, o.fresh)
    /\ UNCHANGED <<publications_df, persisted, saved_graph, probe>>

\* build_knowledge_graph(num_publications, use_cache) returning the cached graph
BuildFromCache(num_publications, use_cache) ==
    /\ use_cache /\ persisted.kind = "json"
    /\ knowledge_graph' = node_link_graph(persisted)
    /\ result' = BuildResult(num_publications, use_cache, "none", TRUE, FALSE, EmptyGraph)
    /\ UNCHANGED <<publications_df, store, persisted, saved_graph, probe>>

\* build_knowledge_graph(num_publications, use_cache) processing the rows; an
\* unreadable cached graph is rebuilt
BuildFromRows(num_publications, use_cache) ==
    /\ ~(use_cache /\ persisted.kind = "json")
    /\ \E o \in BuildRows({[raised |-> "none", g |-> knowledge_graph, fresh |-> EmptyGraph,
                           store |-> store]}, 1, num_publications) :
          /\ knowledge_graph' = o.g
          /\ store' = o.store
          /\ IF o.raised # "none"
             THEN /\ result' = BuildResult(num_publications, use_cache, o.raised, FALSE, FALSE, o.fresh)
                  /\ UNCHANGED <<persisted, saved_graph>>
             ELSE \E disk \in {"ok", "open_failed", "write_failed"} :
                  /\ persisted' = SaveOutcome(o.g, persisted, disk)
                  /\ saved_graph' = IF disk = "ok" THEN o.g ELSE saved_graph
                  /\ result' = BuildResult(num_publications, use_cache, "none", FALSE,
                                           disk = "ok", o.fresh)
    /\ UNCHANGED <<publications_df, probe>>

build_knowledge_graph ==
    \E num_publications \in 0..Len(publications_df), use_cache \in BOOLEAN :
        \/ BuildFromCache(num_publications, use_cache)
        \/ BuildFromRows(num_publications, use_cache)

----------------------------------------------------------------------------
(* Similarity: get_similar_publications *)

\* the publication's neighbours that are keyword nodes, in adjacency order
KeywordNeighbors(G, title) ==
    SelectSeq(neighbors(G, title), LAMBDA node : NodeType(G, node) = "keyword")

\* the inner loop without its test for the queried title
SimilarHitsWithSelf(G, title, keyword) ==
    SelectSeq(neighbors(G, keyword), LAMBDA node : NodeType(G, node) = "publication")

\* the inner loop: the publications other than title next to one keyword
SimilarHits(G, title, keyword) ==
    SelectSeq(neighbors(G, keyword),
              LAMBDA node : node # title /\ NodeType(G, node) = "publication")

\* the hits of the first keyword only
AllHitsOfFirst(G, title, keywords, i) ==
    IF i > Len(keywords) THEN <<>> ELSE SimilarHits(G, title, keywords[i])

\* the publications met over all keywords, one entry per shared keyword
RECURSIVE AllHits(_, _, _, _)
AllHits(G, title, keywords, i) ==
    IF i > Len(keywords) THEN <<>>
    ELSE SimilarHits(G, title, keywords[i]) \o AllHits(G, title, keywords, i + 1)

\* the tally taken without the sort
get_similar_unsorted(G, title, n) ==
    IF ~HasNode(G, title) THEN <<>>
    ELSE Take(Counter(AllHits(G, title, KeywordNeighbors(G, title), 1)), n)

\* get_similar_publications(title, n): <<publication, shared keywords>> pairs
get_similar_publications(G, title, n) ==
    IF ~HasNode(G, title) THEN <<>>
    ELSE Take(SortDesc(Counter(AllHits(G, title, KeywordNeighbors(G, title), 1))), n)

w_bone == <<"b", "o", "n", "e">>
w_absent == <<"N", "o", "n", "e">>

\* the titles asked for: the corpus titles, a keyword and an unknown title
QueryTitles == {title1, title2, title3, w_bone, w_absent}

MaxSimilar == 2

SimilarCall ==
    \E title \in QueryTitles, n \in 0..MaxSimilar :
        /\ result' = [op |-> "similar", title |-> title, n |-> n,
                      ret |-> get_similar_publications(knowledge_graph, title, n)]
        /\ UNCHANGED <<publications_df, store, knowledge_graph, persisted, saved_graph, probe>>

-----------------------------------------------------------------------------
(* Full-text matching: _text_matches *)

Vowels == {"a", "e", "i", "o", "u"}

\* PorterStemmer._is_consonant: y is a consonant at the start and after a vowel
RECURSIVE _is_consonant(_, _)
_is_consonant(word, i) ==
    IF word[i] \in Vowels THEN FALSE
    ELSE IF word[i] = "y" THEN (i = 1 \/ ~_is_consonant(word, i - 1))
    ELSE TRUE

EndsWith(word, suffix) ==
    Len(word) >= Len(suffix)
        /\ SubSeq(word, Len(word) - Len(suffix) + 1, Len(word)) = suffix

DropLast(word, k) == SubSeq(word, 1, Len(word) - k)

\* step 1a of the stemmer: sses -> ss, ies -> i (ie for a four-letter word),
\* ss -> ss, s -> ""
_step1a(word) ==
    IF EndsWith(word, <<"i", "e", "s">>) /\ Len(word) = 4 THEN DropLast(word, 1)
    ELSE IF EndsWith(word, <<"s", "s", "e", "s">>) THEN DropLast(word, 2)
    ELSE IF EndsWith(word, <<"i", "e", "s">>) THEN DropLast(word, 2)
    ELSE IF EndsWith(word, <<"s", "s">>) THEN word
    ELSE IF EndsWith(word, <<"s">>) THEN DropLast(word, 1)
    ELSE word

\* step 1c of the stemmer: y -> i after a consonant that is not the first letter
_step1c(word) ==
    IF EndsWith(word, <<"y">>) /\ Len(word) > 2 /\ _is_consonant(word, Len(word) - 1)
    THEN DropLast(word, 1) \o <<"i">>
    ELSE word

\* PorterStemmer.stem: lower-cases, leaves words of one or two letters alone and
\* strips suffixes.  Steps 1a and 1c are computed.  Steps 1b and 2 to 5 leave
\* the vocabulary of the matching specification unchanged; they shorten some
\* words of the scenario text further (conditions, microgravity), and do so
\* alike for a text token and a query word, which are only compared
stem(word) ==
    LET w == Lower(word)
    IN IF Len(w) <= 2 THEN w ELSE _step1c(_step1a(w))

\* \b at the gap after position p: a word character on exactly one side
Boundary(text, p) ==
    LET before == p >= 1 /\ IsWordChar(text[p])
        after == p < Len(text) /\ IsWordChar(text[p + 1])
    IN before # after

\* re.search(r'\b{}\b'.format(re.escape(word)), text)
WholeWord(text, word) ==
    \E i \in 0..(Len(text) - Len(word)) :
        /\ SubSeq(text, i + 1, i + Len(word)) = word
        /\ Boundary(text, i)
        /\ Boundary(text, i + Len(word))

\* query in text
Contains(text, query) ==
    \E i \in 0..(Len(text) - Len(query)) : SubSeq(text, i + 1, i + Len(query)) = query

\* the stems of the text's tokens; the tokens are word_tokenize's, or those of
\* split() when the tokenizer raises
TextStems(text, nltk_ok) ==
    LET text_tokens == IF nltk_ok THEN Tokenize(text) ELSE Split(Lower(text))
    IN {stem(text_tokens[k]) : k \in DOMAIN text_tokens}

\* the checks for a query word of more than three letters that no stem matches
VariationFound(text, word) ==
    \/ WholeWord(text, word)
    \/ WholeWord(text, word \o <<"s">>)
    \/ EndsWith(word, <<"s">>) /\ WholeWord(text, DropLast(word, 1))
    \/ EndsWith(word, <<"e", "s">>) /\ WholeWord(text, DropLast(word, 2))
    \/ EndsWith(word, <<"i", "e", "s">>) /\ WholeWord(text, DropLast(word, 3) \o <<"y">>)

\* the loop over the query words from the i-th on: the first word that is not
\* found ends it with False
RECURSIVE MatchWordsFrom(_, _, _, _)
MatchWordsFrom(text, text_stems, query_words, i) ==
    IF i > Len(query_words) THEN TRUE
    ELSE LET word == query_words[i]
         IN IF stem(word) \in text_stems
            THEN MatchWordsFrom(text, text_stems, query_words, i + 1)
            ELSE IF Len(word) <= 3
            THEN IF ~WholeWord(text, word) THEN FALSE
                 ELSE MatchWordsFrom(text, text_stems, query_words, i + 1)
            ELSE IF ~VariationFound(text, word) THEN FALSE
                 ELSE MatchWordsFrom(text, text_stems, query_words, i + 1)

\* the loop with the returns inverted: the first word found ends it with True
RECURSIVE MatchAnyWordFrom(_, _, _, _)
MatchAnyWordFrom(text, text_stems, query_words, i) ==
    IF i > Len(query_words) THEN Len(query_words) = 0
    ELSE LET word == query_words[i]
         IN \/ stem(word) \in text_stems
            \/ IF Len(word) <= 3 THEN WholeWord(text, word) ELSE VariationFound(text, word)
            \/ MatchAnyWordFrom(text, text_stems, query_words, i + 1)

FuzzyMatchAny(text, query, nltk_ok) ==
    MatchAnyWordFrom(text, TextStems(text, nltk_ok), Split(Lower(query)), 1)

\* the fuzzy branch of _text_matches
FuzzyMatch(text, query, nltk_ok) ==
    MatchWordsFrom(text, TextStems(text, nltk_ok), Split(Lower(query)), 1)

\* _text_matches(text, query, exact_match); nltk_ok tells whether word_tokenize
\* has its resources
_text_matches(text, query, exact_match, nltk_ok) ==
    IF text = <<>> THEN FALSE
    ELSE IF exact_match THEN Contains(text, query)
    ELSE FuzzyMatch(text, query, nltk_ok)

\* the section test with the section's text left in its own case
SectionMatchesCased(section_text, query, exact_match, nltk_ok) ==
    _text_matches(section_text, Lower(query), exact_match, nltk_ok)

\* search_publications_full_text's test of one section: the query and the
\* section's text are lower-cased before they are matched
SectionMatches(section_text, query, exact_match, nltk_ok) ==
    _text_matches(Lower(section_text), Lower(query), exact_match, nltk_ok)

-----------------------------------------------------------------------------
(* Full-text search: search_publications_full_text and its snippets *)

ContextChars == 100
MaxSnippets == 2
MaxResultSnippets == 3

Max(a, b) == IF a > b THEN a ELSE b

Ellipsis == <<".", ".", ".">>

\* a search that starts one character after start_idx
FindAfter(text, query, start_idx) ==
    LET hits == {i \in (start_idx + 1)..(Len(text) - Len(query)) :
                    SubSeq(text, i + 1, i + Len(query)) = query}
    IN IF hits = {} THEN -1 ELSE CHOOSE i \in hits : \A j \in hits : i <= j

\* text.find(query, start_idx): the first index, counted from 0, or -1
Find(text, query, start_idx) ==
    LET hits == {i \in start_idx..(Len(text) - Len(query)) :
                    SubSeq(text, i + 1, i + Len(query)) = query}
    IN IF hits = {} THEN -1 ELSE CHOOSE i \in hits : \A j \in hits : i <= j

\* the text around the match at [start_idx, end_idx), with an ellipsis on each
\* side that was cut
ContextSnippet(text, start_idx, end_idx) ==
    LET snippet_start == Max(0, start_idx - ContextChars)
        snippet_end == Min(Len(text), end_idx + ContextChars)
    IN (IF snippet_start > 0 THEN Ellipsis ELSE <<>>)
           \o SubSeq(text, snippet_start + 1, snippet_end)
           \o (IF snippet_end < Len(text) THEN Ellipsis ELSE <<>>)

\* the while loop of the exact branch
RECURSIVE ExactSnippetsFrom(_, _, _, _, _)
ExactSnippetsFrom(text, query, start_idx, snippets, max_snippets) ==
    IF Len(snippets) >= max_snippets THEN snippets
    ELSE LET idx == Find(text, query, start_idx)
         IN IF idx = -1 THEN snippets
            ELSE ExactSnippetsFrom(text, query, idx + Len(query),
                                   Append(snippets, ContextSnippet(text, idx, idx + Len(query))),
                                   max_snippets)

\* the forms of a query word that are looked for, in the order they are tried
Variations(word) ==
    SelectSeq(
        <<word>> \o
        (IF Len(word) > 3
         THEN << word \o <<"s">>,
                 IF EndsWith(word, <<"s">>) THEN DropLast(word, 1) ELSE <<>>,
                 IF EndsWith(word, <<"e", "s">>) THEN DropLast(word, 2) ELSE <<>>,
                 IF EndsWith(word, <<"i", "e", "s">>) THEN DropLast(word, 3) \o <<"y">> ELSE <<>> >>
         ELSE <<>>),
        LAMBDA v : v # <<>>)

\* re.search(r'\b..\b', text).start(): the leftmost whole-word match, or -1
FirstWholeWord(text, word) ==
    LET hits == {i \in 0..(Len(text) - Len(word)) :
                    /\ SubSeq(text, i + 1, i + Len(word)) = word
                    /\ Boundary(text, i)
                    /\ Boundary(text, i + Len(word))}
    IN IF hits = {} THEN -1 ELSE CHOOSE i \in hits : \A j \in hits : i <= j

\* the snippet of the first variation, from the v-th on, that is at least 3
\* long and occurs in the text; no snippet when there is none
RECURSIVE VariationSnippet(_, _, _)
VariationSnippet(text, variations, v) ==
    IF v > Len(variations) THEN <<>>
    ELSE LET variation == variations[v]
             start_idx == FirstWholeWord(text, variation)
         IN IF Len(variation) < 3 \/ start_idx = -1
            THEN VariationSnippet(text, variations, v + 1)
            ELSE <<ContextSnippet(text, start_idx, start_idx + Len(variation))>>

\* the loop over the query words of the fuzzy branch
RECURSIVE FuzzySnippetsFrom(_, _, _, _, _)
FuzzySnippetsFrom(text, query_words, k, snippets, max_snippets) ==
    IF k > Len(query_words) \/ Len(snippets) >= max_snippets THEN snippets
    ELSE FuzzySnippetsFrom(text, query_words, k + 1,
                           snippets \o VariationSnippet(text, Variations(query_words[k]), 1),
                           max_snippets)

\* _extract_context_snippets(text, query, exact_match, max_snippets)
_extract_context_snippets(text, query, exact_match, max_snippets) ==
    IF exact_match THEN ExactSnippetsFrom(text, query, 0, <<>>, max_snippets)
    ELSE FuzzySnippetsFrom(text, Split(Lower(query)), 1, <<>>, max_snippets)

\* url_hash_map: the rows with a link, keyed by the fingerprint of the link;
\* a later row with the same link replaces an earlier one
UrlHashMap(df) ==
    LET linked == {i \in DOMAIN df : df[i].Link # ""}
    IN [h \in {hash(df[i].Link) : i \in linked} |->
           LET i == CHOOSE r \in linked :
                        /\ hash(df[r].Link) = h
                        /\ \A q \in linked : hash(df[q].Link) = h => q <= r
           IN [title |-> df[i].Title, url |-> df[i].Link]]

NoPublication == [title |-> <<>>, url |-> "", known |-> FALSE]

\* the first row whose title, lower-cased, is in the document's full text
ResolveByTitle(df, content) ==
    LET full_text == Lower(content.full_text)
        rows == {i \in DOMAIN df : Lower(df[i].Title) # <<>>
                                      /\ Contains(full_text, Lower(df[i].Title))}
    IN IF rows = {} THEN NoPublication
       ELSE LET i == CHOOSE r \in rows : \A q \in rows : r <= q
            IN [title |-> df[i].Title, url |-> df[i].Link, known |-> TRUE]

\* the publication a cache file belongs to: by fingerprint, or else by title
ResolvePublication(df, file_hash, content) ==
    LET url_hash_map == UrlHashMap(df)
    IN IF file_hash \in DOMAIN url_hash_map
       THEN [title |-> url_hash_map[file_hash].title, url |-> url_hash_map[file_hash].url,
             known |-> TRUE]
       ELSE ResolveByTitle(df, content)

SectionNames == <<"abstract", "results", "conclusion">>

\* content.get(name, '').lower()
SectionText(content, name) ==
    CASE name = "abstract" -> Lower(content.abstract)
      [] name = "results" -> Lower(content.results)
      [] name = "conclusion" -> Lower(content.conclusion)
      [] name = "full text" -> Lower(content.full_text)

\* matching_sections with the full text tested whatever the sections gave
MatchingSectionsAndFullText(content, query, section, exact_match, nltk_ok) ==
    LET named == SelectSeq(SectionNames,
                     LAMBDA s : /\ (section = s \/ section = "None")
                                /\ _text_matches(SectionText(content, s), query,
                                                 exact_match, nltk_ok))
    IN IF section = "None"
          /\ _text_matches(SectionText(content, "full text"), query, exact_match, nltk_ok)
       THEN Append(named, "full text")
       ELSE named

\* matching_sections of one document; section is a section name or "None"
MatchingSections(content, query, section, exact_match, nltk_ok) ==
    LET named == SelectSeq(SectionNames,
                     LAMBDA s : /\ (section = s \/ section = "None")
                                /\ _text_matches(SectionText(content, s), query,
                                                 exact_match, nltk_ok))
    IN IF section = "None" /\ named = <<>>
          /\ _text_matches(SectionText(content, "full text"), query, exact_match, nltk_ok)
       THEN <<"full text">>
       ELSE named

\* the snippets of the matching sections from the k-th on, each with its section
RECURSIVE ContextSnippetsFrom(_, _, _, _, _)
ContextSnippetsFrom(content, matching_sections, k, query, exact_match) ==
    IF k > Len(matching_sections) THEN <<>>
    ELSE LET section_name == matching_sections[k]
             snippets == _extract_context_snippets(SectionText(content, section_name),
                                                   query, exact_match, MaxSnippets)
         IN [i \in DOMAIN snippets |-> [text |-> snippets[i], section |-> section_name]]
                \o ContextSnippetsFrom(content, matching_sections, k + 1, query, exact_match)

NoHit == [hit |-> FALSE]

\* the loop body with every snippet kept
SearchFileAllSnippets(df, st, filename, query, section, exact_match, nltk_ok) ==
    IF st[filename].kind # "doc" THEN NoHit
    ELSE LET content == st[filename]
             publication_data == ResolvePublication(df, filename, content)
             matching_sections ==
                 MatchingSections(content, query, section, exact_match, nltk_ok)
         IN IF ~publication_data.known \/ matching_sections = <<>> THEN NoHit
            ELSE [hit |-> TRUE,
                  title |-> publication_data.title,
                  url |-> publication_data.url,
                  matching_sections |-> matching_sections,
                  snippets |-> ContextSnippetsFrom(content, matching_sections, 1,
                                                   query, exact_match)]

\* the body of the loop for one cache file: the result it contributes, if any
SearchFile(df, st, filename, query, section, exact_match, nltk_ok) ==
    IF st[filename].kind # "doc" THEN NoHit
    ELSE LET content == st[filename]
             publication_data == ResolvePublication(df, filename, content)
             matching_sections ==
                 MatchingSections(content, query, section, exact_match, nltk_ok)
         IN IF ~publication_data.known \/ matching_sections = <<>> THEN NoHit
            ELSE [hit |-> TRUE,
                  title |-> publication_data.title,
                  url |-> publication_data.url,
                  matching_sections |-> matching_sections,
                  snippets |-> Take(ContextSnippetsFrom(content, matching_sections, 1,
                                                        query, exact_match),
                                    MaxResultSnippets)]

\* a gathering that adds every hit, whether its title is among the results or not
RECURSIVE GatherAll(_, _, _, _)
GatherAll(hits, cache_files, k, results) ==
    IF k > Len(cache_files) THEN results
    ELSE LET h == hits[cache_files[k]]
         IN IF h.hit
            THEN GatherAll(hits, cache_files, k + 1,
                           Append(results, [title |-> h.title, url |-> h.url,
                                            matching_sections |-> h.matching_sections,
                                            snippets |-> h.snippets]))
            ELSE GatherAll(hits, cache_files, k + 1, results)

\* the results gathered from the files of the listing from the k-th on; a
\* title that is among the results already is not added again
RECURSIVE GatherResults(_, _, _, _)
GatherResults(hits, cache_files, k, results) ==
    IF k > Len(cache_files) THEN results
    ELSE LET h == hits[cache_files[k]]
         IN IF h.hit /\ \A i \in DOMAIN results : results[i].title # h.title
            THEN GatherResults(hits, cache_files, k + 1,
                               Append(results, [title |-> h.title, url |-> h.url,
                                                matching_sections |-> h.matching_sections,
                                                snippets |-> h.snippets]))
            ELSE GatherResults(hits, cache_files, k + 1, results)

\* os.listdir(cache_dir): the files that exist, in an order the file system picks
Listings(st) ==
    LET files == {f \in DOMAIN st : st[f] # Absent}
    IN {l \in [1..Cardinality(files) -> files] : \A a, b \in DOMAIN l : a # b => l[a] # l[b]}

\* the loop over the cache files in the order cache_files lists them
SearchListing(df, st, cache_files, query, section, exact_match, nltk_ok) ==
    LET q == Lower(query)
        hits == [f \in DOMAIN st |-> SearchFile(df, st, f, q, section, exact_match, nltk_ok)]
    IN GatherResults(hits, cache_files, 1, <<>>)

\* search_publications_full_text(query, section, exact_match): the lists it
\* can return, one for each order of the directory listing
search_publications_full_text(df, st, query, section, exact_match, nltk_ok) ==
    {SearchListing(df, st, cache_files, query, section, exact_match, nltk_ok) :
        cache_files \in Listings(st)}

-----------------------------------------------------------------------------
(* Visualization: generate_graph_data_for_visualization *)

MaxNameLen == 50
NameCut == 47

\* G.degree(n)
degree(G, n) == Len(G.adj[n])

\* attrs.get(key, default)
GetOr(attrs, key, default) == IF key \in DOMAIN attrs THEN attrs[key] ELSE default

\* node if len(node) < 50 else node[:47] + '...'
DisplayName(node) ==
    IF Len(node) < MaxNameLen THEN node ELSE SubSeq(node, 1, NameCut) \o Ellipsis

\* the record of one node; a node that is neither publication nor keyword has none
VisualNode(G, node) ==
    LET node_type == GetOr(G.attr[node], "type", "unknown")
    IN IF node_type = "publication"
       THEN <<[id |-> node, name |-> DisplayName(node), type |-> node_type,
               size |-> 10 + degree(G, node),
               url |-> GetOr(G.attr[node], "url", ""),
               themes |-> GetOr(G.attr[node], "themes", <<>>)]>>
       ELSE IF node_type = "keyword"
       THEN <<[id |-> node, name |-> node, type |-> node_type,
               size |-> 5 + degree(G, node) * 2]>>
       ELSE <<>>

RECURSIVE VisualNodesFrom(_, _)
VisualNodesFrom(G, i) ==
    IF i > Len(G.nodes) THEN <<>>
    ELSE VisualNode(G, G.nodes[i]) \o VisualNodesFrom(G, i + 1)

\* generate_graph_data_for_visualization()
generate_graph_data_for_visualization(G) ==
    LET edges == EdgeList(G, 1, {}) IN
    [nodes |-> VisualNodesFrom(G, 1),
     links |-> [j \in DOMAIN edges |->
                   [source |-> edges[j][1], target |-> edges[j][2],
                    weight |-> GetOr(G.eattr[{edges[j][1], edges[j][2]}], "weight", 1),
                    section |-> GetOr(G.eattr[{edges[j][1], edges[j][2]}], "section", "unknown")]]]

-----------------------------------------------------------------------------
(* Clustering: the merge pass of identify_research_clusters *)

MinClusterSize == 3
MaxThemes == 5

\* sorted(clusters, key=lambda x: len(x[1]), reverse=True): stable, larger first
SortBySize(clusters) ==
    LET place(i) ==
            1 + Cardinality({j \in DOMAIN clusters :
                                 \/ Len(clusters[j].pubs) > Len(clusters[i].pubs)
                                 \/ Len(clusters[j].pubs) = Len(clusters[i].pubs) /\ j < i})
    IN [k \in DOMAIN clusters |-> clusters[CHOOSE i \in DOMAIN clusters : place(i) = k]]

\* the merge test with the two empty-theme cases left out
ThemesIntersect(small_themes, large_themes) ==
    Range(small_themes) \cap Range(large_themes) # {}

\* theme_overlap or not small_themes or not large_themes
Mergeable(small_themes, large_themes) ==
    \/ Range(small_themes) \cap Range(large_themes) # {}
    \/ small_themes = <<>>
    \/ large_themes = <<>>

\* a merge that also hands the small cluster's themes to the large one
MergeIntoWithThemes(large_cluster, small_cluster) ==
    [id |-> large_cluster.id,
     pubs |-> large_cluster.pubs \o small_cluster.pubs,
     themes |-> large_cluster.themes
                  \o SelectSeq(small_cluster.themes,
                               LAMBDA t : t \notin Range(large_cluster.themes))]

\* (large_id, large_pubs + small_pubs, large_themes)
MergeInto(large_cluster, small_cluster) ==
    [id |-> large_cluster.id,
     pubs |-> large_cluster.pubs \o small_cluster.pubs,
     themes |-> large_cluster.themes]

\* the loop over the small clusters from the k-th on: each goes into the first
\* cluster of the list it can merge with, or to the end of the list
RECURSIVE MergeSmallFrom(_, _, _)
MergeSmallFrom(combined_communities, small_clusters, k) ==
    IF k > Len(small_clusters) THEN combined_communities
    ELSE LET small_cluster == small_clusters[k]
             targets == {i \in DOMAIN combined_communities :
                            Mergeable(small_cluster.themes, combined_communities[i].themes)}
         IN IF targets = {}
            THEN MergeSmallFrom(Append(combined_communities, small_cluster), small_clusters, k + 1)
            ELSE LET i == CHOOSE t \in targets : \A u \in targets : t <= u
                 IN MergeSmallFrom(
                        [combined_communities EXCEPT ![i] = MergeInto(@, small_cluster)],
                        small_clusters, k + 1)

\* the publications of all the clusters from the k-th on, in order
RECURSIVE ExtendPubs(_, _)
ExtendPubs(clusters, k) ==
    IF k > Len(clusters) THEN <<>> ELSE clusters[k].pubs \o ExtendPubs(clusters, k + 1)

\* a listing of the merged themes that is not cut at five
ThemeListingsUncut(clusters) ==
    LET merged_themes == UNION {Range(clusters[k].themes) : k \in DOMAIN clusters}
        n == Cardinality(merged_themes)
    IN {l \in [1..n -> merged_themes] : \A a, b \in 1..n : a # b => l[a] # l[b]}

\* list(merged_themes)[:5]: a set is listed in an order the hashes decide
ThemeListings(clusters) ==
    LET merged_themes == UNION {Range(clusters[k].themes) : k \in DOMAIN clusters}
        n == Min(MaxThemes, Cardinality(merged_themes))
    IN {l \in [1..n -> merged_themes] : \A a, b \in 1..n : a # b => l[a] # l[b]}

\* lines 364 to 416: sort by size, split at three publications, merge, sort again;
\* the set of lists the pass can return
MergePass(communities_with_themes) ==
    LET sorted_communities == SortBySize(communities_with_themes)
        large == SelectSeq(sorted_communities, LAMBDA c : Len(c.pubs) >= MinClusterSize)
        small_clusters == SelectSeq(sorted_communities, LAMBDA c : Len(c.pubs) < MinClusterSize)
    IN IF small_clusters = <<>> THEN {SortBySize(large)}
       ELSE IF large # <<>> THEN {SortBySize(MergeSmallFrom(large, small_clusters, 1))}
       ELSE IF Len(small_clusters) >= 2
       THEN {<<[id |-> 1, pubs |-> ExtendPubs(small_clusters, 1), themes |-> l]>> :
                l \in ThemeListings(small_clusters)}
       ELSE {small_clusters}

\* the fallback's merge test (line 482)
FallbackMergeable(small_themes, large_themes) ==
    \/ Range(small_themes) \cap Range(large_themes) # {}
    \/ small_themes = <<>>
    \/ large_themes = <<>>

\* a fallback loop that leaves every small cluster standalone
RECURSIVE FallbackAppendFrom(_, _, _)
FallbackAppendFrom(combined_communities, small_clusters, k) ==
    IF k > Len(small_clusters) THEN combined_communities
    ELSE FallbackAppendFrom(Append(combined_communities, small_clusters[k]), small_clusters, k + 1)

\* the fallback's loop over the small clusters (lines 478 to 488)
RECURSIVE FallbackMergeSmallFrom(_, _, _)
FallbackMergeSmallFrom(combined_communities, small_clusters, k) ==
    IF k > Len(small_clusters) THEN combined_communities
    ELSE LET small == small_clusters[k]
             targets == {i \in DOMAIN combined_communities :
                            FallbackMergeable(small.themes, combined_communities[i].themes)}
         IN IF targets = {}
            THEN FallbackMergeSmallFrom(Append(combined_communities, small), small_clusters, k + 1)
            ELSE LET i == CHOOSE t \in targets : \A u \in targets : t <= u
                 IN FallbackMergeSmallFrom(
                        [combined_communities EXCEPT
                            ![i] = [id |-> @.id, pubs |-> @.pubs \o small.pubs, themes |-> @.themes]],
                        small_clusters, k + 1)

\* lines 463 to 503: the fallback's sort, split, merge and final sort
FallbackMergePass(communities) ==
    LET sorted_communities == SortBySize(communities)
        large == SelectSeq(sorted_communities, LAMBDA c : Len(c.pubs) >= MinClusterSize)
        small_clusters == SelectSeq(sorted_communities, LAMBDA c : Len(c.pubs) < MinClusterSize)
    IN IF small_clusters = <<>> THEN {SortBySize(large)}
       ELSE IF large # <<>> THEN {SortBySize(FallbackMergeSmallFrom(large, small_clusters, 1))}
       ELSE IF Len(small_clusters) >= 2
       THEN {SortBySize(<<[id |-> 1, pubs |-> ExtendPubs(small_clusters, 1), themes |-> l]>>) :
                l \in ThemeListings(small_clusters)}
       ELSE {SortBySize(small_clusters)}

-----------------------------------------------------------------------------
(* Clustering: the candidate communities of identify_research_clusters *)

\* the sequences that list every element of S once
Orderings(S) ==
    {l \in [1..Cardinality(S) -> S] : \A a, b \in 1..Cardinality(S) : a # b => l[a] # l[b]}

\* every node of S, whatever its type
NodesIn(G, S) == SelectSeq(G.nodes, LAMBDA n : n \in S)

\* the publication nodes among the nodes of S, in the graph's node order
PublicationsIn(G, S) ==
    SelectSeq(G.nodes, LAMBDA n : n \in S /\ GetOr(G.attr[n], "type", "unknown") = "publication")

RECURSIVE ConcatAll(_, _)
ConcatAll(seqs, i) == IF i > Len(seqs) THEN <<>> ELSE seqs[i] \o ConcatAll(seqs, i + 1)

\* the themes of a community: its publications' keyword neighbours by count, the
\* five most frequent; without any, the five most frequent words of the titles
CommunityThemes(G, publications) ==
    LET keyword_neighbors ==
            ConcatAll([i \in DOMAIN publications |->
                          SelectSeq(neighbors(G, publications[i]),
                                    LAMBDA nb : GetOr(G.attr[nb], "type", "unknown") = "keyword")], 1)
        themes == Firsts(Take(SortDesc(Counter(keyword_neighbors)), MaxThemes))
        all_words == ConcatAll([i \in DOMAIN publications |-> TitleWords(publications[i])], 1)
    IN IF themes # <<>> THEN themes ELSE Firsts(most_common(all_words, MaxThemes))

\* the nodes reachable from the nodes of S
RECURSIVE Reachable(_, _)
Reachable(G, S) ==
    LET T == S \cup UNION {Range(G.adj[n]) : n \in S}
    IN IF T = S THEN S ELSE Reachable(G, T)

\* list(nx.connected_components(G)): in the order of each component's first node
connected_components(G) ==
    Distinct([i \in DOMAIN G.nodes |-> Reachable(G, {G.nodes[i]})])

\* the groupings of the publications pubs that extend f, which numbers the
\* first Len(f) of them: the next one joins a community of its own component
\* or opens a new one
RECURSIVE GroupingsFrom(_, _, _)
GroupingsFrom(G, pubs, f) ==
    IF Len(f) = Len(pubs) THEN {f}
    ELSE LET i == Len(f) + 1
             opened == Cardinality({f[j] : j \in DOMAIN f})
             fits == {c \in 0..opened :
                         \A j \in DOMAIN f : f[j] = c => pubs[j] \in Reachable(G, {pubs[i]})}
         IN UNION {GroupingsFrom(G, pubs, Append(f, c)) : c \in fits}

\* community_louvain.best_partition(G), as far as the publications go: a
\* grouping of the publications that never joins two components.  A community
\* is numbered here by the place of its first publication.
Partitions(G) == GroupingsFrom(G, PublicationsIn(G, Range(G.nodes)), <<>>)

\* communities_with_themes of the primary path for one partition
LouvainCommunities(G, partition) ==
    LET pubs == PublicationsIn(G, Range(G.nodes))
        ids == Distinct(partition)
    IN [k \in DOMAIN ids |->
           LET publications == SelectSeq(pubs, LAMBDA p :
                                   \E i \in DOMAIN pubs : pubs[i] = p /\ partition[i] = ids[k])
           IN [id |-> ids[k], pubs |-> publications,
               themes |-> CommunityThemes(G, publications)]]

\* a theme derivation that takes every keyword neighbour, however many
FallbackThemesUncut(G, publications) ==
    Firsts(SortDesc(Counter(
        ConcatAll([i \in DOMAIN publications |->
                      SelectSeq(neighbors(G, publications[i]),
                                LAMBDA nb : GetOr(G.attr[nb], "type", "unknown") = "keyword")], 1))))

\* the fallback's themes of a component (lines 432 to 460): keyword neighbours
\* by count, the five most frequent; without any, the title words
FallbackThemes(G, publications) ==
    LET keyword_counts ==
            Counter(ConcatAll([i \in DOMAIN publications |->
                          SelectSeq(neighbors(G, publications[i]),
                                    LAMBDA neighbor :
                                        /\ HasNode(G, neighbor)
                                        /\ GetOr(G.attr[neighbor], "type", "unknown") = "keyword")], 1))
        top_keywords == Take(SortDesc(keyword_counts), MaxThemes)
        themes == Firsts(top_keywords)
        all_words == ConcatAll([i \in DOMAIN publications |-> TitleWords(publications[i])], 1)
    IN IF themes = <<>> THEN Firsts(most_common(all_words, MaxThemes)) ELSE themes

\* the fallback from its theme derivation on, for candidate clusters given as
\* lists of publications: the i-th is numbered i - 1
FallbackFrom(G, candidates) ==
    FallbackMergePass([k \in DOMAIN candidates |->
                          [id |-> k - 1, pubs |-> candidates[k],
                           themes |-> FallbackThemes(G, candidates[k])]])

\* the publication lists of the fallback path from the i-th component on; a
\* component is a set, and its publications come in the order its iteration
\* gives; a component without publications is skipped
RECURSIVE ComponentCommunities(_, _, _)
ComponentCommunities(G, components, i) ==
    IF i > Len(components) THEN {<<>>}
    ELSE LET rest == ComponentCommunities(G, components, i + 1)
             members == Range(PublicationsIn(G, components[i]))
         IN IF members = {} THEN rest
            ELSE {<<[id |-> i - 1, pubs |-> publications,
                     themes |-> FallbackThemes(G, publications)]>> \o r :
                     publications \in Orderings(members), r \in rest}

\* identify_research_clusters(): every list the call can return, with
\* python-louvain installed or not
identify_research_clusters(G, louvain_ok) ==
    IF louvain_ok
    THEN UNION {MergePass(LouvainCommunities(G, partition)) : partition \in Partitions(G)}
    ELSE UNION {FallbackMergePass(communities) :
                   communities \in ComponentCommunities(G, connected_components(G), 1)}

-----------------------------------------------------------------------------
(* Keyword lookups: get_publication_by_keyword and get_publications_by_keyword *)

\* get_publication_by_keyword(keyword): the publications next to every keyword
\* node whose lower-cased id contains the lower-cased keyword
RECURSIVE KeywordHitsFrom(_, _, _)
KeywordHitsFrom(G, keyword, i) ==
    IF i > Len(G.nodes) THEN <<>>
    ELSE LET node == G.nodes[i]
             pubs == SelectSeq(neighbors(G, node),
                               LAMBDA nb : GetOr(G.attr[nb], "type", "unknown") = "publication")
         IN (IF GetOr(G.attr[node], "type", "unknown") = "keyword"
                /\ Contains(Lower(node), Lower(keyword))
             THEN [j \in DOMAIN pubs |->
                      [title |-> pubs[j], url |-> GetOr(G.attr[pubs[j]], "url", ""),
                       keyword |-> node]]
             ELSE <<>>)
            \o KeywordHitsFrom(G, keyword, i + 1)

get_publication_by_keyword(G, keyword) == KeywordHitsFrom(G, keyword, 1)

\* the link of the first row with that title, or None
LinkOfTitle(df, pub_title) ==
    LET matches == {i \in DOMAIN df : df[i].Title = pub_title}
    IN IF matches = {} THEN "None"
       ELSE df[CHOOSE i \in matches : \A j \in matches : i <= j].Link

\* get_publications_by_keyword(keyword) from the test for the keyword on: the
\* publications next to the node of that id
PublicationsOfKeyword(G, df, keyword) ==
    IF ~HasNode(G, keyword) THEN <<>>
    ELSE LET pubs == SelectSeq(neighbors(G, keyword),
                               LAMBDA nb : GetOr(G.attr[nb], "type", "unknown") = "publication")
         IN [j \in DOMAIN pubs |-> [title |-> pubs[j], url |-> LinkOfTitle(df, pubs[j])]]

\* the build run without the test for an empty graph
EnsureBuiltAlways(G, df, st, file, saved) ==
    IF file.kind = "json"
    THEN {[raised |-> "none", g |-> node_link_graph(file), store |-> st, persisted |-> file,
           saved_graph |-> saved]}
    ELSE UNION {IF o.raised # "none"
                THEN {[raised |-> o.raised, g |-> o.g, store |-> o.store, persisted |-> file,
                       saved_graph |-> saved]}
                ELSE {[raised |-> "none", g |-> o.g, store |-> o.store,
                       persisted |-> SaveOutcome(o.g, file, disk),
                       saved_graph |-> IF disk = "ok" THEN o.g ELSE saved] :
                         disk \in {"ok", "open_failed", "write_failed"}} :
                  o \in BuildRows({[raised |-> "none", g |-> G, fresh |-> EmptyGraph,
                                    store |-> st]}, 1, Len(df))}

\* self.build_knowledge_graph() as get_publications_by_keyword runs it on a graph
\* without nodes: all the rows, use_cache=True; every outcome
EnsureBuilt(G, df, st, file, saved) ==
    IF Len(G.nodes) # 0
    THEN {[raised |-> "none", g |-> G, store |-> st, persisted |-> file, saved_graph |-> saved]}
    ELSE IF file.kind = "json"
    THEN {[raised |-> "none", g |-> node_link_graph(file), store |-> st, persisted |-> file,
           saved_graph |-> saved]}
    ELSE UNION {IF o.raised # "none"
                THEN {[raised |-> o.raised, g |-> o.g, store |-> o.store, persisted |-> file,
                       saved_graph |-> saved]}
                ELSE {[raised |-> "none", g |-> o.g, store |-> o.store,
                       persisted |-> SaveOutcome(o.g, file, disk),
                       saved_graph |-> IF disk = "ok" THEN o.g ELSE saved] :
                         disk \in {"ok", "open_failed", "write_failed"}} :
                  o \in BuildRows({[raised |-> "none", g |-> G, fresh |-> EmptyGraph,
                                    store |-> st]}, 1, Len(df))}

-----------------------------------------------------------------------------
(* date_extractor.py: update_json_with_metadata over the cache directory *)

UnknownTitle == <<"U", "n", "k", "n", "o", "w", "n", " ", "T", "i", "t", "l", "e">>
PMID == <<"P", "M", "I", "D", ":">>
PMCID == <<"P", "M", "C", "I", "D", ":">>
PmcPrefix == <<"h", "t", "t", "p", "s", ":", "/", "/", "w", "w", "w", ".", "n", "c", "b", "i", ".", "n", "l", "m", ".", "n", "i", "h", ".", "g", "o", "v", "/", "p", "m", "c", "/", "a", "r", "t", "i", "c", "l", "e", "s", "/", "P", "M", "C">>
DoiPrefix == <<"d", "o", "i", ":">>
JanFirst == <<"-", "0", "1", "-", "0", "1">>

\* datetime.now().year, the year of the run
ThisYear == <<"2", "0", "2", "5">>

\* the characters \s matches and strip() removes
Whitespace == {" ", "\n", "\t", "\r"}

MetadataKeys == {"publicationUrl", "publicationTitle", "publishedDate"}

\* s.strip()
Strip(s) ==
    LET kept == {i \in DOMAIN s : s[i] \notin Whitespace}
    IN IF kept = {} THEN <<>>
       ELSE SubSeq(s, CHOOSE i \in kept : \A j \in kept : i <= j,
                      CHOOSE i \in kept : \A j \in kept : j <= i)

\* re.search(r'(?:PMID:|PMCID:).*?\n\n(.*?)\n', full_text, re.DOTALL): the line
\* after the first blank line that follows the first marker, or no match
TitleAfterMarker(full_text) ==
    LET ends == {Find(full_text, m, 0) + Len(m) : m \in {m \in {PMID, PMCID} : Find(full_text, m, 0) >= 0}}
        from == CHOOSE e \in ends : \A d \in ends : e <= d
        blank == Find(full_text, <<"\n", "\n">>, from)
        stop == Find(full_text, <<"\n">>, blank + 2)
    IN IF ends = {} THEN [found |-> FALSE]
       ELSE IF blank < 0 THEN [found |-> FALSE]
       ELSE IF stop < 0 THEN [found |-> FALSE]
       ELSE [found |-> TRUE, title |-> Strip(SubSeq(full_text, blank + 3, stop))]

\* re.split(r'\.(?:\s|\n)', abstract, 1)[0].strip(): the abstract up to its first
\* period that whitespace follows
FirstSentence(abstract) ==
    LET ends == {i \in 1..(Len(abstract) - 1) : abstract[i] = "." /\ abstract[i + 1] \in Whitespace}
    IN IF ends = {} THEN Strip(abstract)
       ELSE Strip(SubSeq(abstract, 1, (CHOOSE i \in ends : \A j \in ends : i <= j) - 1))

\* extract_title_from_json(json_data)
extract_title_from_json(json_data) ==
    LET full_text == GetOr(json_data, "full_text", <<>>)
        abstract == GetOr(json_data, "abstract", <<>>)
    IN IF full_text # <<>> /\ TitleAfterMarker(full_text).found
       THEN TitleAfterMarker(full_text).title
       ELSE IF abstract # <<>> THEN FirstSentence(abstract)
       ELSE UnknownTitle

\* the text has a four-digit year, which every date pattern and the copyright
\* pattern ask for
HasYear(text) ==
    \E i \in 1..(Len(text) - 3) : \A j \in i..(i + 3) : text[j] \in Digits

\* extract_date_from_text(text): without a year in the text, January 1st of the
\* current year; the dates read from a text are not told apart here
extract_date_from_text(text) ==
    IF HasYear(text) THEN [from_text |-> TRUE] ELSE [from_text |-> FALSE, date |-> ThisYear \o JanFirst]

\* extract_url_from_text(text): without a PMC link and without a DOI, None; the
\* links read from a text are not told apart here
extract_url_from_text(text) ==
    IF Contains(text, PmcPrefix) \/ Contains(text, DoiPrefix)
    THEN [from_text |-> TRUE] ELSE [from_text |-> FALSE, url |-> "None"]

\* the file's JSON object with the three metadata keys set
WithMetadata(data) ==
    LET metadata == [publicationUrl |-> extract_url_from_text(GetOr(data, "full_text", <<>>)),
                     publicationTitle |-> extract_title_from_json(data),
                     publishedDate |-> extract_date_from_text(GetOr(data, "full_text", <<>>))]
    IN [k \in DOMAIN data \cup MetadataKeys |-> IF k \in MetadataKeys THEN metadata[k] ELSE data[k]]

\* one turn of the loop over the *.json files: a file that cannot be parsed is
\* reported and left, one that has the three keys is skipped, any other is
\* rewritten with them
UpdatedFile(file) ==
    IF file.kind \in {"absent", "none", "corrupt", "invalid"} THEN file
    ELSE IF MetadataKeys \subseteq DOMAIN file THEN file
    ELSE WithMetadata(file)

\* update_json_with_metadata(): the cache directory holds the documents and the
\* persisted graph
update_json_with_metadata ==
    /\ store' = [f \in CacheFiles |-> UpdatedFile(store[f])]
    /\ persisted' = UpdatedFile(persisted)
    /\ result' = [op |-> "update_metadata",
                  updated_count |-> Cardinality({f \in CacheFiles : UpdatedFile(store[f]) # store[f]})
                                      + (IF UpdatedFile(persisted) # persisted THEN 1 ELSE 0)]
    /\ UNCHANGED <<publications_df, knowledge_graph, saved_graph, probe>>

----------------------------------------------------------------------------
(* The processor *)

NoResult == [op |-> "none"]

\* the cache files that an earlier run may have left unreadable
CorruptFiles == {"h3"}

\* PublicationProcessor(csv_path): an empty graph; the cache directory holds what
\* earlier runs left, here nothing or unreadable files
Init ==
    /\ publications_df = MainCorpus
    /\ store \in {[f \in CacheFiles |-> IF f \in C THEN Corrupt ELSE Absent] : C \in SUBSET CorruptFiles}
    /\ knowledge_graph = EmptyGraph
    /\ persisted \in {NoFile, Invalid}
    /\ saved_graph = EmptyGraph
    /\ result = NoResult
    /\ probe = NoResult

Next ==
    \/ build_knowledge_graph
    \/ SimilarCall

Spec == Init /\ [][Next]_vars

----------------------------------------------------------------------------
(* Properties of the build *)

Built == result.op = "build" /\ result.raised = "none" /\ ~result.loaded

\* C1: a failed network fetch of an uncached URL never leaves
\* fetch_publication_content as an exception, so no build fails because of it.
C1_FetchFailureNeverRaises == result.op = "build" => result.raised # "AttributeError"

PublicationEnd(G, n) == NodeType(G, n) = "publication"
KeywordEnd(G, n) == NodeType(G, n) = "keyword" /\ Len(n) > MinKeywordLen

\* C2: every edge of the graph joins one publication node and one keyword node,
\* and the keyword is longer than 3 characters.
C2_Bipartite ==
    \A e \in DOMAIN knowledge_graph.eattr :
        \E u, v \in e :
            /\ e = {u, v} /\ u # v
            /\ PublicationEnd(knowledge_graph, u) /\ ~PublicationEnd(knowledge_graph, v)
            /\ KeywordEnd(knowledge_graph, v)

\* C3: a completed build of at least one row with use_cache=False leaves the
\* graph that the same build makes of an empty graph: nothing of the graph
\* that was there before survives.
C3_RebuildWholesale ==
    (Built /\ ~result.use_cache /\ result.num_publications >= 1)
        => SameGraph(knowledge_graph, result.fresh)

\* C10: the graph loaded from the persisted artifact equals the graph that was
\* saved: same nodes, same edges, same node and edge attributes.
C10_RoundTrip ==
    (result.op = "build" /\ result.loaded) => SameGraph(knowledge_graph, saved_graph)

\* a graph with themes, a conclusion edge and the colliding title was saved and loaded
C10_Witness ==
    /\ result.op = "build" /\ result.loaded
    /\ Len(knowledge_graph.nodes) >= 6
    /\ \E e \in DOMAIN knowledge_graph.eattr : knowledge_graph.eattr[e].section = "conclusion"
    /\ HasNode(knowledge_graph, title1) /\ knowledge_graph.attr[title1].themes # <<>>

\* C15: a build with use_cache over a readable persisted graph returns exactly
\* the graph that was persisted; it fetches no document, adds no node or edge
\* to it, and leaves the persisted artifact and the content store unchanged
C15_CacheLoadUnchanged ==
    [][(result'.op = "build" /\ result'.use_cache /\ persisted.kind = "json") =>
           /\ result'.loaded /\ result'.raised = "none"
           /\ SameGraph(knowledge_graph', saved_graph)
           /\ result'.fresh = EmptyGraph
           /\ store' = store
           /\ persisted' = persisted]_vars

\* a graph with nodes and edges has been loaded from the persisted artifact
C15_Witness ==
    /\ result.op = "build" /\ result.loaded
    /\ Len(knowledge_graph.nodes) > 1
    /\ \E n \in DOMAIN knowledge_graph.adj : Len(knowledge_graph.adj[n]) > 0
    /\ \E f \in CacheFiles : store[f] = Absent


\* C13: an unreadable or invalid persisted item never makes an operation raise:
\* over an invalid persisted graph a build with use_cache rebuilds from the rows,
\* and an unreadable cached document is treated as absent, so no build ends with
\* the JSON decoding error of that document
C13_InvalidItemNeverRaises ==
    result.op = "build" =>
        /\ result.raised # "JSONDecodeError"
        /\ (result.raised = "none" /\ ~result.loaded) =>
               \A i \in 1..result.num_publications :
                   store[hash(publications_df[i].Link)].kind = "doc"

----------------------------------------------------------------------------
(* Properties of the similarity lookup *)

Adjacent(G, u, v) == {u, v} \in DOMAIN G.eattr

\* the keyword nodes next to both publications
SharedKeywords(G, title, other) ==
    {k \in DOMAIN G.attr : /\ NodeType(G, k) = "keyword"
                           /\ Adjacent(G, title, k) /\ Adjacent(G, k, other)}

\* the publications other than title that share a keyword with it
Candidates(G, title) ==
    {c \in DOMAIN G.attr : /\ c # title /\ NodeType(G, c) = "publication"
                           /\ SharedKeywords(G, title, c) # {}}

Returned == {result.ret[i][1] : i \in DOMAIN result.ret}

\* C5: the queried title is never among the returned pairs, and every returned
\* title is a publication node.
C5_NeverSelf ==
    result.op = "similar" =>
        \A i \in DOMAIN result.ret :
            /\ result.ret[i][1] # result.title
            /\ HasNode(knowledge_graph, result.ret[i][1])
            /\ NodeType(knowledge_graph, result.ret[i][1]) = "publication"

\* a lookup for a publication that shares keywords with two others returned both
C5_Witness ==
    /\ result.op = "similar" /\ result.title = title3 /\ Len(result.ret) = 2

\* C6: at most n pairs, counts non-increasing, no candidate left out has a
\* larger count than a returned one, and nothing for a title not in the graph.
C6_TopN ==
    result.op = "similar" =>
        /\ Len(result.ret) <= result.n
        /\ \A i, j \in DOMAIN result.ret : i < j => result.ret[i][2] >= result.ret[j][2]
        /\ \A c \in Candidates(knowledge_graph, result.title) \ Returned :
              \A i \in DOMAIN result.ret :
                  Cardinality(SharedKeywords(knowledge_graph, result.title, c)) <= result.ret[i][2]
        /\ (~HasNode(knowledge_graph, result.title) => result.ret = <<>>)

\* one pair was returned and a candidate with a smaller count was left out
C6_Witness ==
    /\ result.op = "similar" /\ result.n = 1 /\ Len(result.ret) = 1
    /\ \E c \in Candidates(knowledge_graph, result.title) \ Returned :
          Cardinality(SharedKeywords(knowledge_graph, result.title, c)) < result.ret[1][2]

\* C28: the count of every returned pair is the number of keyword-typed nodes
\* adjacent to both the queried title and the returned one, and is at least 1.
C28_SharedKeywordCount ==
    result.op = "similar" =>
        \A i \in DOMAIN result.ret :
            /\ result.ret[i][2] =
                   Cardinality(SharedKeywords(knowledge_graph, result.title, result.ret[i][1]))
            /\ result.ret[i][2] >= 1

\* a lookup for a publication returned one candidate that shares two keywords
\* with it and another that shares one
C28_Witness ==
    /\ result.op = "similar" /\ HasNode(knowledge_graph, result.title)
    /\ NodeType(knowledge_graph, result.title) = "publication"
    /\ \E i, j \in DOMAIN result.ret : result.ret[i][2] >= 2 /\ result.ret[j][2] = 1

-----------------------------------------------------------------------------
(* Section matching on its own: every bounded text against every bounded query *)

MaxTextLen == 3
MaxQueryLen == 2
MaxTextWords == 2
MaxQueryWords == 2

\* the sequences over S of length at most n
SeqsUpTo(S, n) == UNION {[1..k -> S] : k \in 0..n}

ExactAlphabet == {"a", "A", "b"}

w_cell == <<"c", "e", "l", "l">>
w_growth == <<"g", "r", "o", "w", "t", "h">>
w_growths == <<"g", "r", "o", "w", "t", "h", "s">>
w_dna == <<"d", "n", "a">>
w_dna_growth == <<"d", "n", "a", "-", "g", "r", "o", "w", "t", "h">>
w_cells_comma == <<"c", "e", "l", "l", "s", ",">>

TextVocabulary == {w_cell, w_growth, w_dna_growth, w_cells_comma}
QueryVocabulary == {w_cell, w_growth, w_growths, w_dna}

ExactInputs ==
    {[op |-> "input", text |-> t, query |-> q, exact_match |-> TRUE, nltk_ok |-> TRUE] :
        t \in SeqsUpTo(ExactAlphabet, MaxTextLen), q \in SeqsUpTo(ExactAlphabet, MaxQueryLen)}

FuzzyInputs ==
    {[op |-> "input", text |-> Join(t), query |-> Join(q), exact_match |-> FALSE, nltk_ok |-> ok] :
        t \in SeqsUpTo(TextVocabulary, MaxTextWords),
        q \in SeqsUpTo(QueryVocabulary, MaxQueryWords),
        ok \in BOOLEAN}

InitMatch ==
    /\ publications_df = MainCorpus
    /\ store = [f \in CacheFiles |-> Absent]
    /\ knowledge_graph = EmptyGraph
    /\ persisted = NoFile
    /\ saved_graph = EmptyGraph
    /\ result = NoResult
    /\ probe \in ExactInputs \cup FuzzyInputs

Matched(ret) ==
    [op |-> "match", text |-> probe.text, query |-> probe.query,
     exact_match |-> probe.exact_match, nltk_ok |-> probe.nltk_ok, ret |-> ret]

ExactCall ==
    /\ probe.op = "input" /\ probe.exact_match
    /\ probe' = Matched(SectionMatches(probe.text, probe.query, TRUE, probe.nltk_ok))
    /\ UNCHANGED <<publications_df, store, knowledge_graph, persisted, saved_graph, result>>

FuzzyCall ==
    /\ probe.op = "input" /\ ~probe.exact_match
    /\ probe' = Matched(SectionMatches(probe.text, probe.query, FALSE, probe.nltk_ok))
    /\ UNCHANGED <<publications_df, store, knowledge_graph, persisted, saved_graph, result>>

NextMatch == ExactCall \/ FuzzyCall

SpecMatch == InitMatch /\ [][NextMatch]_vars

-----------------------------------------------------------------------------
(* Properties of section matching *)

\* q occupies consecutive positions of t
IsContiguousSubstring(q, t) ==
    \E pre, post \in 0..Len(t) :
        /\ pre + Len(q) + post = Len(t)
        /\ \A k \in 1..Len(q) : t[pre + k] = q[k]

ExactResult == probe.op = "match" /\ probe.exact_match
FuzzyResult == probe.op = "match" /\ ~probe.exact_match

\* C7 as stated: with exact_match=True a section matches if and only if the
\* case-folded query is a contiguous substring of the case-folded section text,
\* the empty query and the empty text included
C7_ExactIffSubstring ==
    ExactResult =>
        (probe.ret <=> IsContiguousSubstring(Lower(probe.query), Lower(probe.text)))

\* C7 amended: with exact_match=True a non-empty section matches if and only if
\* the lower-cased query is a contiguous substring of the lower-cased section
\* text, and an empty section matches no query, not even the empty one
C7_ExactIffSubstringOfNonEmpty ==
    ExactResult =>
        (probe.ret <=> (probe.text # <<>>
                          /\ IsContiguousSubstring(Lower(probe.query), Lower(probe.text))))

\* a non-empty query found in a text that has upper-case letters
C7_Witness ==
    ExactResult /\ probe.ret /\ probe.query # <<>> /\ Lower(probe.text) # probe.text

\* the forms of a query word that are looked for as whole words
Forms(word) ==
    {word} \cup
    (IF Len(word) <= 3 THEN {}
     ELSE {word \o <<"s">>}
          \cup (IF EndsWith(word, <<"s">>) THEN {DropLast(word, 1)} ELSE {})
          \cup (IF EndsWith(word, <<"e", "s">>) THEN {DropLast(word, 2)} ELSE {})
          \cup (IF EndsWith(word, <<"i", "e", "s">>) THEN {DropLast(word, 3) \o <<"y">>} ELSE {}))

\* the word matches the text by stem, as a whole word or in one of its forms
WordMatchesText(word, text, nltk_ok) ==
    \/ stem(word) \in TextStems(text, nltk_ok)
    \/ \E f \in Forms(word) : WholeWord(text, f)

\* C8: in fuzzy mode a section matches only if every whitespace-separated word
\* of the query matches it by stem, as a whole word or in a listed variation; a
\* section that has "cell" and no form of "growth" does not match "cell growth"
C8_FuzzyConjunctive ==
    FuzzyResult =>
        /\ probe.ret =>
               \A k \in DOMAIN Split(Lower(probe.query)) :
                   WordMatchesText(Split(Lower(probe.query))[k], Lower(probe.text), probe.nltk_ok)
        /\ (probe.query = Join(<<w_cell, w_growth>>) /\ probe.text \in {w_cell, Join(<<w_cell, w_cell>>)})
               => ~probe.ret

\* "cell growth" asked of a section that is just "cell": one word of two matches
C8_Witness ==
    /\ FuzzyResult
    /\ probe.query = Join(<<w_cell, w_growth>>)
    /\ probe.text = w_cell
    /\ ~probe.ret

-----------------------------------------------------------------------------
(* The merge pass on its own: every bounded list of candidate communities *)

MaxClusters == 3
MaxClusterSize == 3

\* the sizes of the first k communities added up
RECURSIVE SumSizes(_, _)
SumSizes(sizes, k) == IF k = 0 THEN 0 ELSE sizes[k] + SumSizes(sizes, k - 1)

ThemeChoices == {<<>>, <<w_cell>>, <<w_growth>>, <<w_cell, w_growth>>}

\* candidate communities of the given sizes: the k-th has id k - 1 and the next
\* publications in line, so no publication is in two communities
CandidateCommunities(sizes, themes) ==
    [k \in DOMAIN sizes |->
        LET before == SumSizes(sizes, k - 1)
        IN [id |-> k - 1,
            pubs |-> [m \in 1..sizes[k] |-> before + m],
            themes |-> themes[k]]]

\* two communities of 2 and of 5 publications whose themes differ
ScenarioCommunities == CandidateCommunities(<<2, 5>>, <<<<w_cell>>, <<w_growth>>>>)

\* two small communities with six themes between them
WideCommunities ==
    CandidateCommunities(<<1, 2>>, <<<<w_cell, w_growth, w_bone>>, <<w_dna, w_growths, w_absent>>>>)

\* the merge pass of the primary path, or of the fallback
PassOutcomes(louvain_ok, communities) ==
    IF louvain_ok THEN MergePass(communities) ELSE FallbackMergePass(communities)

\* identify_research_clusters has grouped the publications into communities and
\* found their themes: any number of communities up to the bound, of any sizes
InitMerge ==
    /\ publications_df = MainCorpus
    /\ store = [f \in CacheFiles |-> Absent]
    /\ knowledge_graph = EmptyGraph
    /\ persisted = NoFile
    /\ saved_graph = EmptyGraph
    /\ result = NoResult
    /\ \/ \E n \in 0..MaxClusters :
              \E sizes \in [1..n -> 1..MaxClusterSize], themes \in [1..n -> ThemeChoices] :
                  probe = [op |-> "candidates", input |-> CandidateCommunities(sizes, themes)]
       \/ probe = [op |-> "candidates", input |-> ScenarioCommunities]
       \/ probe = [op |-> "candidates", input |-> WideCommunities]

\* the merge pass runs on the candidate communities
MergeCall ==
    /\ probe.op = "candidates"
    /\ \E louvain_ok \in BOOLEAN :
           \E once \in PassOutcomes(louvain_ok, probe.input) :
               probe' = [op |-> "merged", input |-> probe.input, louvain_ok |-> louvain_ok,
                         once |-> once]
    /\ UNCHANGED <<publications_df, store, knowledge_graph, persisted, saved_graph, result>>

\* the merge pass runs again on the list it returned
MergeAgain ==
    /\ probe.op = "merged"
    /\ \E twice \in PassOutcomes(probe.louvain_ok, probe.once) :
           probe' = [op |-> "remerged", input |-> probe.input, louvain_ok |-> probe.louvain_ok,
                     once |-> probe.once, twice |-> twice]
    /\ UNCHANGED <<publications_df, store, knowledge_graph, persisted, saved_graph, result>>

NextMerge == MergeCall \/ MergeAgain

SpecMerge == InitMerge /\ [][NextMerge]_vars

-----------------------------------------------------------------------------
(* Properties of the merge pass *)

Merged == probe.op \in {"merged", "remerged"}

\* C4 as stated: in the returned list all clusters have at least 3 publications
\* unless exactly one cluster remains in the list
C4_AllLargeOrSingle ==
    Merged =>
        \/ \A k \in DOMAIN probe.once : Len(probe.once[k].pubs) >= MinClusterSize
        \/ Len(probe.once) = 1

\* C4 amended: in the returned list every cluster with fewer than 3
\* publications is either the only cluster of the list or has themes, and
\* shares none of them with any other cluster of the list, all of which have
\* themes too
C4_SmallIsSingleOrUnmatched ==
    Merged =>
        \A k \in DOMAIN probe.once :
            Len(probe.once[k].pubs) < MinClusterSize =>
                \/ Len(probe.once) = 1
                \/ /\ probe.once[k].themes # <<>>
                   /\ \A j \in DOMAIN probe.once \ {k} :
                          /\ probe.once[j].themes # <<>>
                          /\ Range(probe.once[j].themes) \cap Range(probe.once[k].themes) = {}

\* a cluster of fewer than 3 publications returned next to another cluster
C4_Witness ==
    /\ Merged
    /\ Len(probe.once) >= 2
    /\ \E k \in DOMAIN probe.once : Len(probe.once[k].pubs) < MinClusterSize

PubSets(clusters) == {Range(clusters[k].pubs) : k \in DOMAIN clusters}

\* C9: re-running the merge pass on the list it produced yields clusters with
\* the same publication sets; no publication moves, is lost or is duplicated
C9_MergeIdempotent ==
    probe.op = "remerged" =>
        /\ PubSets(probe.twice) = PubSets(probe.once)
        /\ Len(probe.twice) = Len(probe.once)
        /\ \A k \in DOMAIN probe.twice :
               Cardinality(Range(probe.twice[k].pubs)) = Len(probe.twice[k].pubs)

\* the second pass ran on a list in which the first had merged a small cluster
\* and had left another on its own
C9_Witness ==
    /\ probe.op = "remerged"
    /\ Len(probe.once) < Len(probe.input)
    /\ Len(probe.once) >= 2
    /\ \E k \in DOMAIN probe.once : Len(probe.once[k].pubs) < MinClusterSize

-----------------------------------------------------------------------------
(* Properties of the merge pass: which cluster a small cluster goes to *)

IsLarge(cluster) == Len(cluster.pubs) >= MinClusterSize

HasLarge(clusters) == \E k \in DOMAIN clusters : IsLarge(clusters[k])

\* the two clusters have themes and share none
ThemesApart(c, d) ==
    /\ c.themes # <<>> /\ d.themes # <<>>
    /\ Range(c.themes) \cap Range(d.themes) = {}

\* C12: a small cluster whose themes are non-empty and disjoint from the
\* non-empty themes of every large cluster is returned standalone, with its
\* own id, publications and themes; candidates of sizes 2 and 5 with disjoint
\* themes come back with sizes [5, 2]
C12_UnmatchedSmallStaysStandalone ==
    (probe.op = "merged" /\ HasLarge(probe.input)) =>
        /\ \A k \in DOMAIN probe.input :
               (/\ ~IsLarge(probe.input[k])
                /\ \A j \in DOMAIN probe.input :
                       IsLarge(probe.input[j]) => ThemesApart(probe.input[k], probe.input[j]))
                   => \E m \in DOMAIN probe.once : probe.once[m] = probe.input[k]
        /\ probe.input = ScenarioCommunities
               => [m \in DOMAIN probe.once |-> Len(probe.once[m].pubs)] = <<5, 2>>

\* the position in the sorted list of the large cluster a small one belongs
\* in: the first large cluster that shares a theme with it, or the first large
\* cluster at all when one of the two has no themes; 0 when there is none
LargeTargetOf(sorted, k) ==
    LET fits == {j \in DOMAIN sorted :
                    IsLarge(sorted[j]) /\ ~ThemesApart(sorted[k], sorted[j])}
    IN IF fits = {} THEN 0 ELSE CHOOSE j \in fits : \A i \in fits : j <= i

\* C20: each small cluster is merged only into a cluster that was large at the
\* split, the first one it shares a theme with or where either side has no
\* themes; the merged cluster keeps the large cluster's id and themes, its
\* publications are the large list followed by the small lists; a small
\* cluster with no such large cluster is returned as it is, never merged into
\* a small cluster left standalone before it
C20_MergeOnlyIntoLarge ==
    (probe.op = "merged" /\ HasLarge(probe.input)) =>
        LET sorted == SortBySize(probe.input)
            smalls == {k \in DOMAIN sorted : ~IsLarge(sorted[k])}
        IN /\ \A j \in DOMAIN sorted :
                  IsLarge(sorted[j]) =>
                      \E m \in DOMAIN probe.once :
                          /\ probe.once[m].id = sorted[j].id
                          /\ probe.once[m].themes = sorted[j].themes
                          /\ SubSeq(probe.once[m].pubs, 1, Len(sorted[j].pubs)) = sorted[j].pubs
                          /\ Range(probe.once[m].pubs) =
                                 Range(sorted[j].pubs)
                                     \cup UNION {Range(sorted[k].pubs) :
                                                   k \in {s \in smalls : LargeTargetOf(sorted, s) = j}}
           /\ \A k \in smalls :
                  LargeTargetOf(sorted, k) = 0
                      => \E m \in DOMAIN probe.once : probe.once[m] = sorted[k]

-----------------------------------------------------------------------------
(* Properties of the merge pass: no large cluster *)

AllThemes(clusters) == UNION {Range(clusters[k].themes) : k \in DOMAIN clusters}

AllPubs(clusters) == UNION {Range(clusters[k].pubs) : k \in DOMAIN clusters}

\* C21: with no large cluster and at least two small ones the list returned is
\* one cluster with id 1, the publications of all the small clusters and at
\* most 5 themes taken from the union of theirs; a single small cluster is
\* returned as it is
C21_NoLargeCluster ==
    (probe.op = "merged" /\ ~HasLarge(probe.input)) =>
        /\ Len(probe.input) >= 2 =>
               /\ Len(probe.once) = 1
               /\ probe.once[1].id = 1
               /\ Range(probe.once[1].pubs) = AllPubs(probe.input)
               /\ Len(probe.once[1].pubs) = Cardinality(AllPubs(probe.input))
               /\ Len(probe.once[1].themes) <= MaxThemes
               /\ Range(probe.once[1].themes) \subseteq AllThemes(probe.input)
        /\ Len(probe.input) = 1 => probe.once = probe.input

\* two small clusters with more than five themes between them were merged on
\* the fallback path, and five themes were kept
C21_Witness ==
    /\ probe.op = "merged" /\ ~probe.louvain_ok
    /\ ~HasLarge(probe.input) /\ Len(probe.input) = 2
    /\ Cardinality(AllThemes(probe.input)) > MaxThemes
    /\ Len(probe.once) = 1 /\ Len(probe.once[1].themes) = MaxThemes

-----------------------------------------------------------------------------
(* The one-publication scenario: a cached document, a build, searches *)

sc_title == <<"M", "i", "c", "r", "o", "g", "r", "a", "v", "i", "t", "y", " ", "e", "f", "f", "e", "c", "t", "s", " ", "o", "n", " ", "c", "e", "l", "l", " ", "g", "r", "o", "w", "t", "h">>
sc_abstract ==
    <<"C", "e", "l", "l", " ", "g", "r", "o", "w", "t", "h", " ", "i", "n", "c", "r", "e", "a", "s", "e", "s", " ", "u", "n", "d", "e", "r", " ", "m", "i", "c", "r", "o", "g", "r", "a", "v", "i", "t", "y", " ", "c", "o", "n", "d", "i", "t", "i", "o", "n", "s", " ", "e", "x", "t", "e", "n", "s", "i", "v", "e", "l", "y", ".">>

w_microgravity == <<"m", "i", "c", "r", "o", "g", "r", "a", "v", "i", "t", "y">>
w_conditions == <<"c", "o", "n", "d", "i", "t", "i", "o", "n", "s">>

q_cell_growth == <<"c", "e", "l", "l", " ", "g", "r", "o", "w", "t", "h">>
q_Growth == <<"G", "r", "o", "w", "t", "h">>
q_cells == <<"c", "e", "l", "l", "s">>
q_bone_loss == <<"b", "o", "n", "e", " ", "l", "o", "s", "s">>

ScenarioCorpus == << [Title |-> sc_title, Link |-> "u1"] >>

ScenarioQueries == {q_cell_growth, q_Growth, q_cells, q_bone_loss, w_microgravity, <<>>}

SectionArguments == {"None", "abstract", "results", "conclusion"}

\* the corpus has the one publication and the cache holds its document
InitScenario ==
    /\ publications_df = ScenarioCorpus
    /\ store = [f \in CacheFiles |->
                   IF f = hash("u1")
                   THEN Document(Sections(sc_abstract, <<>>, <<>>, sc_title), "web", "success")
                   ELSE Absent]
    /\ knowledge_graph = EmptyGraph
    /\ persisted \in {NoFile, Invalid}
    /\ saved_graph = EmptyGraph
    /\ result = NoResult
    /\ probe = NoResult

SearchResult(query, section, exact_match, nltk_ok, ret) ==
    [op |-> "search", query |-> query, section |-> section, exact_match |-> exact_match,
     nltk_ok |-> nltk_ok, ret |-> ret]

\* a call of search_publications_full_text with one of the queries
SearchCall(queries) ==
    \E query \in queries, section \in SectionArguments, exact_match \in BOOLEAN,
       nltk_ok \in BOOLEAN :
        \E ret \in search_publications_full_text(publications_df, store, query, section,
                                                 exact_match, nltk_ok) :
            /\ result' = SearchResult(query, section, exact_match, nltk_ok, ret)
            /\ UNCHANGED <<publications_df, store, knowledge_graph, persisted, saved_graph, probe>>

ScenarioSearch == SearchCall(ScenarioQueries)

NextScenario == build_knowledge_graph \/ ScenarioSearch

SpecScenario == InitScenario /\ [][NextScenario]_vars

-----------------------------------------------------------------------------
(* Properties of the scenario *)

PublicationNodes(G) == {n \in DOMAIN G.attr : NodeType(G, n) = "publication"}

HasEdge(G, u, v) == {u, v} \in DOMAIN G.eattr

\* C11: after a build of the one-publication corpus the graph has exactly one
\* publication node, with edges tagged section=abstract to "growth",
\* "microgravity" and "conditions"; the search for "cell growth" returns
\* exactly one result, with matching_sections ["abstract"] and a snippet that
\* contains "growth"
C11_Scenario ==
    /\ (Built /\ result.num_publications = 1) =>
           /\ PublicationNodes(knowledge_graph) = {sc_title}
           /\ \A k \in {w_growth, w_microgravity, w_conditions} :
                  /\ HasEdge(knowledge_graph, sc_title, k)
                  /\ NodeType(knowledge_graph, k) = "keyword"
                  /\ knowledge_graph.eattr[{sc_title, k}].section = "abstract"
    /\ (/\ result.op = "search" /\ result.query = q_cell_growth
        /\ result.section = "None" /\ ~result.exact_match) =>
           /\ Len(result.ret) = 1
           /\ result.ret[1].title = sc_title
           /\ result.ret[1].matching_sections = <<"abstract">>
           /\ \E i \in DOMAIN result.ret[1].snippets :
                  Contains(result.ret[1].snippets[i].text, w_growth)

\* the graph was built and then "cell growth" was searched for
C11_Witness ==
    /\ result.op = "search" /\ result.query = q_cell_growth
    /\ result.section = "None" /\ ~result.exact_match
    /\ PublicationNodes(knowledge_graph) = {sc_title}
    /\ Len(result.ret) = 1

-----------------------------------------------------------------------------
(* Display names on their own: publication titles of every length to the bound *)

MaxTitleLen == 52

TitleAlphabet == <<"S", "p", "a", "c", "e", " ", "b", "i", "o">>

\* a title of n characters
TitleOfLength(n) == [i \in 1..n |-> TitleAlphabet[((i - 1) % Len(TitleAlphabet)) + 1]]

InitDisplay ==
    /\ publications_df = MainCorpus
    /\ store = [f \in CacheFiles |-> Absent]
    /\ knowledge_graph = EmptyGraph
    /\ persisted = NoFile
    /\ saved_graph = EmptyGraph
    /\ result = NoResult
    /\ \E n \in 1..MaxTitleLen, k \in 0..1 :
           probe = [op |-> "title", title |-> TitleOfLength(n), keywords |-> k]

\* a graph with the one publication, and a keyword next to it when k is 1
TitleGraph(title, k) ==
    LET G == add_node(EmptyGraph, title, [type |-> "publication", url |-> "u1", themes |-> <<>>])
    IN IF k = 0 THEN G
       ELSE add_edge(add_node(G, w_growth, [type |-> "keyword"]), title, w_growth,
                     [weight |-> 1, section |-> "abstract"])

\* the visualization data of the graph that holds the title
DisplayCall ==
    /\ probe.op = "title"
    /\ probe' = [op |-> "display", title |-> probe.title,
                 ret |-> generate_graph_data_for_visualization(
                             TitleGraph(probe.title, probe.keywords))]
    /\ UNCHANGED <<publications_df, store, knowledge_graph, persisted, saved_graph, result>>

NextDisplay == DisplayCall

SpecDisplay == InitDisplay /\ [][NextDisplay]_vars

\* C16: the display name of a publication node is its title unchanged when the
\* title has 50 characters or fewer, and the first 47 characters followed by
\* an ellipsis only when it has more than 50; the id is always the full title
C16_DisplayName ==
    probe.op = "display" =>
        /\ probe.ret.nodes[1].id = probe.title
        /\ probe.ret.nodes[1].name =
               IF Len(probe.title) <= 50 THEN probe.title
               ELSE SubSeq(probe.title, 1, 47) \o <<".", ".", ".">>

-----------------------------------------------------------------------------
(* Two requests fetching one uncached URL at the same time.  probe holds each *)
(* request's position in fetch_publication_content and what it has in hand;  *)
(* store holds the cache file.                                               *)

MaxFetchers == 2

Fetchers == 1..MaxFetchers

\* publication_data with its 'timestamp': time.time() at the fetch
Stamped(doc, t) ==
    [k \in DOMAIN doc \cup {"timestamp"} |-> IF k = "timestamp" THEN t ELSE doc[k]]

InitRace ==
    /\ publications_df = MainCorpus
    /\ store = [f \in CacheFiles |-> Absent]
    /\ knowledge_graph = EmptyGraph
    /\ persisted = NoFile
    /\ saved_graph = EmptyGraph
    /\ result = NoResult
    /\ \E url \in Urls :
           probe = [op |-> "race", url |-> url,
                    pc |-> [p \in Fetchers |-> "exists"],
                    data |-> [p \in Fetchers |-> NoData],
                    raised |-> [p \in Fetchers |-> "none"],
                    overlaid |-> [p \in Fetchers |-> FALSE],
                    clock |-> 0, last_writer |-> 0]

\* if cache and os.path.exists(cache_file)
RaceExists(p) ==
    /\ probe.pc[p] = "exists"
    /\ probe' = [probe EXCEPT
                   !.pc[p] = IF store[hash(probe.url)] # Absent THEN "load" ELSE "get"]
    /\ UNCHANGED store

\* with open(cache_file, 'r') as f: data = json.load(f); return data
RaceLoad(p) ==
    /\ probe.pc[p] = "load"
    /\ probe' = IF store[hash(probe.url)].kind = "doc"
                THEN [probe EXCEPT !.pc[p] = "done", !.data[p] = store[hash(probe.url)]]
                ELSE [probe EXCEPT !.pc[p] = "done", !.raised[p] = "JSONDecodeError"]
    /\ UNCHANGED store

\* requests.get and the parsing of the page; a failure ends in the handler that
\* calls the undefined get_title_from_url
RaceGet(p) ==
    /\ probe.pc[p] = "get"
    /\ \E netOK \in BOOLEAN :
          probe' = IF netOK
                   THEN [probe EXCEPT !.pc[p] = "open", !.clock = @ + 1,
                            !.data[p] = Stamped(Document(WebPage(probe.url), "web", "success"),
                                                probe.clock + 1)]
                   ELSE [probe EXCEPT !.pc[p] = "done", !.raised[p] = "AttributeError"]
    /\ UNCHANGED store

\* open(cache_file, 'w'): the file exists from here on and is empty
RaceOpen(p) ==
    /\ probe.pc[p] = "open"
    /\ store' = [store EXCEPT ![hash(probe.url)] = Corrupt]
    /\ probe' = [probe EXCEPT !.pc[p] = "dump", !.overlaid[p] = FALSE]

\* json.dump(publication_data, f) and the close: the record is written from
\* offset 0.  Over what another request wrote after this one opened the file,
\* a record that is shorter leaves the other's tail behind it.
RaceDump(p) ==
    /\ probe.pc[p] = "dump"
    /\ \E shorter \in {FALSE, probe.overlaid[p]} :
          store' = [store EXCEPT ![hash(probe.url)] =
                       IF shorter THEN Corrupt ELSE probe.data[p]]
    /\ probe' = [probe EXCEPT !.pc[p] = "done", !.last_writer = p,
                    !.overlaid = [q \in Fetchers |->
                                     IF q # p /\ probe.pc[q] = "dump" THEN TRUE
                                     ELSE probe.overlaid[q]]]

FetchStep(p) ==
    /\ probe.op = "race"
    /\ \/ RaceExists(p)
       \/ RaceLoad(p)
       \/ RaceGet(p)
       \/ RaceOpen(p)
       \/ RaceDump(p)
    /\ UNCHANGED <<publications_df, knowledge_graph, persisted, saved_graph, result>>

NextRace == \E p \in Fetchers : FetchStep(p)

SpecRace == InitRace /\ [][NextRace]_vars

-----------------------------------------------------------------------------
(* Properties of the race *)

RaceOver == \A p \in Fetchers : probe.pc[p] = "done"

\* C18: when two first-time fetches of one uncached URL interleave and the
\* network answers both, each returns a complete document record, neither
\* raises, and the entry stored at the end is the complete record of the last
\* writer
C18_RaceHarmless ==
    (probe.op = "race" /\ RaceOver /\ \A p \in Fetchers : probe.raised[p] # "AttributeError") =>
        /\ \A p \in Fetchers : probe.raised[p] = "none" /\ probe.data[p].kind = "doc"
        /\ probe.last_writer \in Fetchers
        /\ store[hash(probe.url)] = probe.data[probe.last_writer]

-----------------------------------------------------------------------------
(* The processor in service: builds and every read operation *)

ReadOps == {"similar", "clusters", "search", "visualization", "publication_by_keyword",
            "publications_by_keyword"}

KeywordArguments == {w_growth, w_bone, w_absent}

ServiceQueries == {q_Growth}

\* identify_research_clusters()
ClustersCall ==
    \E louvain_ok \in BOOLEAN :
        \E ret \in identify_research_clusters(knowledge_graph, louvain_ok) :
            /\ result' = [op |-> "clusters", louvain_ok |-> louvain_ok, ret |-> ret]
            /\ UNCHANGED <<publications_df, store, knowledge_graph, persisted, saved_graph, probe>>

\* generate_graph_data_for_visualization()
VisualizationCall ==
    /\ result' = [op |-> "visualization",
                  ret |-> generate_graph_data_for_visualization(knowledge_graph)]
    /\ UNCHANGED <<publications_df, store, knowledge_graph, persisted, saved_graph, probe>>

\* get_publication_by_keyword(keyword)
KeywordCall ==
    \E keyword \in KeywordArguments :
        /\ result' = [op |-> "publication_by_keyword", keyword |-> keyword,
                      ret |-> get_publication_by_keyword(knowledge_graph, keyword)]
        /\ UNCHANGED <<publications_df, store, knowledge_graph, persisted, saved_graph, probe>>

\* get_publications_by_keyword(keyword): a graph without nodes is built first
get_publications_by_keyword ==
    \E keyword \in KeywordArguments :
        \E o \in EnsureBuilt(knowledge_graph, publications_df, store, persisted, saved_graph) :
            /\ knowledge_graph' = o.g
            /\ store' = o.store
            /\ persisted' = o.persisted
            /\ saved_graph' = o.saved_graph
            /\ result' = [op |-> "publications_by_keyword", keyword |-> keyword,
                          built |-> Len(knowledge_graph.nodes) = 0, raised |-> o.raised,
                          ret |-> IF o.raised = "none"
                                  THEN PublicationsOfKeyword(o.g, publications_df, keyword)
                                  ELSE <<>>]
            /\ UNCHANGED <<publications_df, probe>>

\* search_publications_full_text(query, exact_match=...) over all sections
ServiceSearch ==
    \E query \in ServiceQueries, exact_match \in BOOLEAN :
        \E ret \in search_publications_full_text(publications_df, store, query, "None",
                                                 exact_match, TRUE) :
            /\ result' = SearchResult(query, "None", exact_match, TRUE, ret)
            /\ UNCHANGED <<publications_df, store, knowledge_graph, persisted, saved_graph, probe>>

NextService ==
    \/ build_knowledge_graph
    \/ SimilarCall
    \/ ClustersCall
    \/ ServiceSearch
    \/ VisualizationCall
    \/ KeywordCall
    \/ get_publications_by_keyword

\* the first two rows of the corpus
ServiceCorpus == SubSeq(MainCorpus, 1, 2)

\* a processor just constructed over an empty cache directory
InitService ==
    /\ publications_df = ServiceCorpus
    /\ store = [f \in CacheFiles |-> Absent]
    /\ knowledge_graph = EmptyGraph
    /\ persisted = NoFile
    /\ saved_graph = EmptyGraph
    /\ result = NoResult
    /\ probe = NoResult

SpecService == InitService /\ [][NextService]_vars

-----------------------------------------------------------------------------
(* Properties of the processor in service *)

\* C14: the graph is mutated only during a build: once a build has completed, a
\* call of any of the six read operations leaves the nodes, the edges and every
\* attribute of the graph as they were
C14_ReadOnlyAfterBuild ==
    [][(result.op = "build" /\ result.raised = "none" /\ result'.op \in ReadOps) =>
           knowledge_graph' = knowledge_graph]_vars

\* C14 as the code has it: a read operation leaves the graph as it was, except
\* get_publications_by_keyword on a graph without nodes, which runs a build first
C14_ReadOnlyUnlessEmpty ==
    [][result'.op \in ReadOps =>
           \/ knowledge_graph' = knowledge_graph
           \/ /\ result'.op = "publications_by_keyword"
              /\ result'.built
              /\ Len(knowledge_graph.nodes) = 0]_vars

\* get_publications_by_keyword has answered from a graph that was already built
C14_Witness ==
    /\ result.op = "publications_by_keyword"
    /\ ~result.built
    /\ result.ret # <<>>
    /\ Len(knowledge_graph.nodes) > 1

-----------------------------------------------------------------------------
(* The content store in service: fetches, builds, searches, the metadata run *)

\* a corpus of one row; the second URL is fetched without being in it
StoreCorpus == <<[Title |-> title1, Link |-> "u1"]>>

StoreUrls == {"u1", "u2"}

InitStore ==
    /\ publications_df = StoreCorpus
    /\ store = [f \in CacheFiles |-> Absent]
    /\ knowledge_graph = EmptyGraph
    /\ persisted = NoFile
    /\ saved_graph = EmptyGraph
    /\ result = NoResult
    /\ probe = NoResult

\* fetch_publication_content(url, cache)
FetchCall ==
    \E url \in StoreUrls, cache \in BOOLEAN :
        \E o \in FetchOutcomes(url, cache, store) :
            /\ store' = o.store
            /\ result' = [op |-> "fetch", url |-> url, cache |-> cache, raised |-> o.raised,
                          data |-> o.data]
            /\ UNCHANGED <<publications_df, knowledge_graph, persisted, saved_graph, probe>>

NextStore ==
    \/ build_knowledge_graph
    \/ FetchCall
    \/ ServiceSearch
    \/ update_json_with_metadata

SpecStore == InitStore /\ [][NextStore]_vars

-----------------------------------------------------------------------------
(* Properties of the content store in service *)

\* C19: content store entries are immutable once written: an entry that holds a
\* document holds the same content in every later state
C19_EntriesImmutable ==
    [][\A f \in CacheFiles : store[f].kind = "doc" => store'[f] = store[f]]_vars

\* C19 as the code has it: no fetch, build or search rewrites or deletes an
\* entry, and a cached fetch returns it; update_json_with_metadata rewrites an
\* entry that lacks the metadata keys, adding the three keys and keeping every
\* field that was stored
C19_EntriesKeepWhatWasWritten ==
    [][/\ \A f \in CacheFiles :
              store[f].kind = "doc" =>
                  \/ store'[f] = store[f]
                  \/ /\ result'.op = "update_metadata"
                     /\ ~(MetadataKeys \subseteq DOMAIN store[f])
                     /\ DOMAIN store'[f] = DOMAIN store[f] \cup MetadataKeys
                     /\ \A k \in DOMAIN store[f] : store'[f][k] = store[f][k]
       /\ (result'.op = "fetch" /\ result'.cache /\ store[hash(result'.url)].kind = "doc") =>
              /\ result'.raised = "none"
              /\ result'.data = store[hash(result'.url)]]_vars

\* a cached fetch has returned an entry that the metadata run had rewritten
C19_Witness ==
    /\ result.op = "fetch" /\ result.cache /\ result.raised = "none"
    /\ MetadataKeys \subseteq DOMAIN result.data
    /\ result.data = store[hash(result.url)]

-----------------------------------------------------------------------------
(* Theme extraction on its own: titles and documents, one of them long *)

LongWords == 100

NumThemesArguments == {1, NumThemes}

\* the k-th of the distinct four-letter words of the long abstract
LongWord(k) == <<LowerCase[((k - 1) \div 26) + 1], LowerCase[((k - 1) % 26) + 1], "q", "z">>

\* an abstract of LongWords distinct words, each once
LongAbstract == Join([k \in 1..LongWords |-> LongWord(k)])

t_42 == <<"4", "2">>

\* two rows: one whose title has no word of letters, and a second publication
ThemesCorpus == <<[Title |-> t_42, Link |-> "u1"], [Title |-> title2, Link |-> "u2"]>>

ThemeTitles == {<<>>, t_42, title1, title3}

ThemeAbstracts == {<<>>, abstract1, abstract2, LongAbstract}

ThemeConclusions == {<<>>, conclusion1}

InitThemes ==
    /\ publications_df = ThemesCorpus
    /\ store = [f \in CacheFiles |-> Absent]
    /\ knowledge_graph = EmptyGraph
    /\ persisted = NoFile
    /\ saved_graph = EmptyGraph
    /\ result = NoResult
    /\ \E title \in ThemeTitles, abstract \in ThemeAbstracts, conclusion \in ThemeConclusions,
          num_themes \in NumThemesArguments :
           probe = [op |-> "document", title |-> title, num_themes |-> num_themes,
                    content |-> Document(Sections(abstract, <<>>, conclusion, title),
                                         "web", "success")]

\* identify_publication_themes(publication_title, content, num_themes)
ThemesCall ==
    /\ probe.op = "document"
    /\ \E o \in identify_publication_themes(probe.title, probe.content, probe.num_themes, store) :
          /\ probe' = [op |-> "themes", title |-> probe.title, num_themes |-> probe.num_themes,
                       content |-> probe.content, ret |-> o.themes]
          /\ store' = o.store
    /\ UNCHANGED <<publications_df, knowledge_graph, persisted, saved_graph, result>>

NextThemes == ThemesCall

SpecThemes == InitThemes /\ [][NextThemes]_vars

-----------------------------------------------------------------------------
(* Properties of theme extraction *)

-----------------------------------------------------------------------------
(* Clustering on its own: graphs of publications and their keywords *)

MaxPubs == 3

t_alpha == <<"A", "l", "p", "h", "a">>
t_beta == <<"B", "e", "t", "a">>
t_gamma == <<"G", "a", "m", "m", "a">>
t_delta == <<"D", "e", "l", "t", "a">>
w_loss == <<"l", "o", "s", "s">>

ClusterTitles == <<title1, title2, title3, t_alpha, t_beta, t_gamma, t_delta>>

\* the keywords of one publication; the second word is also the second title
KeywordMenus == {<<>>, <<w_cell>>, <<w_growth>>, <<w_cell, w_growth>>}

SixKeywords == <<w_cell, w_bone, w_loss, w_growths, w_microgravity, w_conditions>>

\* the graph a build leaves for publications with the given keywords, each
\* keyword once in its abstract
RECURSIVE ClusterGraphFrom(_, _, _)
ClusterGraphFrom(G, keywords, i) ==
    IF i > Len(keywords) THEN G
    ELSE ClusterGraphFrom(
             AddKeywords(add_node(G, ClusterTitles[i],
                                  [type |-> "publication", url |-> "u1", themes |-> <<>>]),
                         ClusterTitles[i],
                         [k \in DOMAIN keywords[i] |-> <<keywords[i][k], 1>>], "abstract"),
             keywords, i + 1)

ClusterGraph(keywords) == ClusterGraphFrom(EmptyGraph, keywords, 1)

\* one publication with six keywords
SixKeywordGraph == ClusterGraph(<<SixKeywords>>)

\* three publications on "cell", three on "bone", and "Bone loss" on its own
SortGraph ==
    ClusterGraph(<<<<w_cell>>, <<w_cell>>, <<>>, <<w_cell>>, <<w_bone>>, <<w_bone>>, <<w_bone>>>>)

InitClusters ==
    /\ publications_df = MainCorpus
    /\ store = [f \in CacheFiles |-> Absent]
    /\ persisted = NoFile
    /\ saved_graph = EmptyGraph
    /\ result = NoResult
    /\ probe = NoResult
    /\ \/ \E n \in 0..MaxPubs : \E keywords \in [1..n -> KeywordMenus] :
              knowledge_graph = ClusterGraph(keywords)
       \/ knowledge_graph = SixKeywordGraph
       \/ knowledge_graph = SortGraph

\* the two paths of identify_research_clusters from the same candidate
\* clusters: a grouping of the publications, the primary path's outcomes and
\* the fallback's
PathsCall ==
    \E partition \in Partitions(knowledge_graph) :
        LET communities == LouvainCommunities(knowledge_graph, partition)
            candidates == [k \in DOMAIN communities |-> communities[k].pubs]
        IN /\ result' = [op |-> "paths", candidates |-> candidates,
                         primary |-> MergePass(communities),
                         fallback |-> FallbackFrom(knowledge_graph, candidates)]
           /\ UNCHANGED <<publications_df, store, knowledge_graph, persisted, saved_graph, probe>>

NextClusters == ClustersCall \/ PathsCall

SpecClusters == InitClusters /\ [][NextClusters]_vars

-----------------------------------------------------------------------------
(* Properties of clustering *)

Clustered == result.op = "clusters"

\* C22: the list identify_research_clusters returns is sorted by publication
\* count, largest first, after all merges, and every cluster in it has at most
\* 5 themes
C22_SortedAndFewThemes ==
    Clustered =>
        /\ \A k \in 1..(Len(result.ret) - 1) :
               Len(result.ret[k].pubs) >= Len(result.ret[k + 1].pubs)
        /\ \A k \in DOMAIN result.ret : Len(result.ret[k].themes) <= MaxThemes

\* a cluster that grew by a merge comes before one that was found before it
C22_Witness ==
    /\ Clustered
    /\ Len(result.ret) = 2
    /\ Len(result.ret[1].pubs) = 4 /\ Len(result.ret[2].pubs) = 3
    /\ result.ret[1].id > result.ret[2].id

\* the two paths' outcomes without the cluster ids
Unnumbered(outcomes) ==
    {[k \in DOMAIN o |-> [pubs |-> o[k].pubs, themes |-> o[k].themes]] : o \in outcomes}

\* C27: from the same candidate clusters over the same graph the fallback path
\* returns what the primary path returns: the same publications and themes per
\* cluster, in the same order
C27_FallbackSameAsPrimary ==
    result.op = "paths" => Unnumbered(result.fallback) = Unnumbered(result.primary)

\* both paths ran on three or more candidates, merged a small one and returned
\* two or more clusters
C27_Witness ==
    /\ result.op = "paths"
    /\ Len(result.candidates) >= 3
    /\ \E o \in result.fallback : Len(o) >= 2 /\ Len(o) < Len(result.candidates)

TypeOf(G, n) == GetOr(G.attr[n], "type", "unknown")

\* C29: on both paths every publication-typed node of the graph is in exactly
\* one returned cluster and once in it; no returned cluster is empty or holds a
\* keyword-typed node
C29_ClustersPartitionPublications ==
    Clustered =>
        /\ \A n \in DOMAIN knowledge_graph.attr :
               TypeOf(knowledge_graph, n) = "publication" =>
                   Cardinality({<<k, m>> \in (DOMAIN result.ret) \X (1..Len(knowledge_graph.nodes)) :
                                   /\ m \in DOMAIN result.ret[k].pubs
                                   /\ result.ret[k].pubs[m] = n}) = 1
        /\ \A k \in DOMAIN result.ret :
               /\ result.ret[k].pubs # <<>>
               /\ \A m \in DOMAIN result.ret[k].pubs :
                      TypeOf(knowledge_graph, result.ret[k].pubs[m]) # "keyword"

\* the primary path returned two clusters or more for a graph of seven
\* publications
C29_Witness ==
    /\ Clustered /\ result.louvain_ok
    /\ Len(result.ret) >= 2
    /\ Cardinality({n \in DOMAIN knowledge_graph.attr :
                        TypeOf(knowledge_graph, n) = "publication"}) = 7

-----------------------------------------------------------------------------
(* Search on its own: two publications and a cache of up to three documents *)

sa_abstract == <<"C", "e", "l", "l", " ", "g", "r", "o", "w", "t", "h", " ", "a", "n", "d", " ", "c", "e", "l", "l", " ", "g", "r", "o", "w", "t", "h", " ", "a", "g", "a", "i", "n">>
sa_results == <<"c", "e", "l", "l", " ", "g", "r", "o", "w", "t", "h", ",", " ", "c", "e", "l", "l", " ", "g", "r", "o", "w", "t", "h">>
sa_conclusion == <<"n", "o", " ", "c", "e", "l", "l", " ", "g", "r", "o", "w", "t", "h">>

SearchCorpus == << [Title |-> title1, Link |-> "u1"], [Title |-> title3, Link |-> "u3"] >>

sb_title == <<"B", "o", "n", "e", " ", "l", "o", "s", "s", " ", "i", "n", " ", "c", "e", "l", "l", " ", "g", "r", "o", "w", "t", "h">>

\* a document that has "cell growth" in every section, one that has it in its
\* full text only, one about the second publication, and one that names no
\* publication of the corpus
SearchDocuments ==
    { Document(Sections(sa_abstract, sa_results, sa_conclusion, title1), "web", "success"),
      Document(Sections(w_bone, <<>>, <<>>, sb_title), "web", "success"),
      Document(Sections(w_bone, <<>>, <<>>, title3), "web", "success"),
      Document(WebPage("u2"), "web", "success") }

SearchQueries == {q_cell_growth, q_bone_loss, <<>>}

\* the cache files in use: the one named after the second publication's link
\* and one named after no link of the corpus
SearchFiles == {hash("u3"), hash("u2")}

InitSearch ==
    /\ publications_df = SearchCorpus
    /\ \E files \in [SearchFiles -> SearchDocuments \cup {Absent, Corrupt}] :
           store = [f \in CacheFiles |-> IF f \in SearchFiles THEN files[f] ELSE Absent]
    /\ knowledge_graph = EmptyGraph
    /\ persisted = NoFile
    /\ saved_graph = EmptyGraph
    /\ result = NoResult
    /\ probe = NoResult

\* search_publications_full_text(query, section, exact_match) for one order of
\* the directory listing, which probe keeps
ScanCall ==
    \E query \in SearchQueries, section \in SectionArguments, exact_match \in BOOLEAN,
       nltk_ok \in BOOLEAN, cache_files \in Listings(store) :
        /\ result' = SearchResult(query, section, exact_match, nltk_ok,
                                  SearchListing(publications_df, store, cache_files, query,
                                                section, exact_match, nltk_ok))
        /\ probe' = [op |-> "listing", cache_files |-> cache_files]
        /\ UNCHANGED <<publications_df, store, knowledge_graph, persisted, saved_graph>>

NextSearch == ScanCall

SpecSearch == InitSearch /\ [][NextSearch]_vars

-----------------------------------------------------------------------------
(* Properties of search *)

Searched == result.op = "search" /\ probe.op = "listing"

\* the section of the document in file f matches the query of the search
Matches(f, s) ==
    _text_matches(SectionText(store[f], s), Lower(result.query), result.exact_match,
                  result.nltk_ok)

\* the publication the document in file f resolves to
Resolved(f) == ResolvePublication(publications_df, f, store[f])

\* the files in scan order whose document resolves to the title
FilesOf(title) ==
    SelectSeq(probe.cache_files,
              LAMBDA f : store[f].kind = "doc" /\ Resolved(f).known /\ Resolved(f).title = title)

\* the document in file f matches in some section that the search tests
MatchesSomewhere(f) ==
    IF result.section = "None"
    THEN \E s \in {"abstract", "results", "conclusion", "full text"} : Matches(f, s)
    ELSE result.section \in Range(SectionNames) /\ Matches(f, result.section)

\* the file a result comes from: the first in scan order that resolves to its
\* title and matches
SourceOf(r) ==
    LET files == SelectSeq(FilesOf(r.title), MatchesSomewhere)
    IN IF files = <<>> THEN "none" ELSE files[1]

\* C23: with a section given only that section is tested and only it can be in
\* matching_sections; without one, abstract, results and conclusion are tested
\* each on its own and the full text only if none of them matched, so
\* "full text" is in matching_sections only as its single element
C23_SectionSelection ==
    Searched =>
        \A i \in DOMAIN result.ret :
            LET r == result.ret[i]
                f == SourceOf(r)
            IN /\ f # "none"
               /\ result.section # "None" => r.matching_sections = <<result.section>>
               /\ result.section = "None" =>
                      /\ \A s \in Range(SectionNames) :
                             s \in Range(r.matching_sections) <=> Matches(f, s)
                      /\ "full text" \in Range(r.matching_sections) <=>
                             /\ \A s \in Range(SectionNames) : ~Matches(f, s)
                             /\ Matches(f, "full text")
                      /\ "full text" \in Range(r.matching_sections) =>
                             r.matching_sections = <<"full text">>

\* one search without a section returned a result found in its full text only
\* and a result found in all three sections
C23_Witness ==
    /\ Searched /\ result.section = "None"
    /\ \E i, j \in DOMAIN result.ret :
           /\ result.ret[i].matching_sections = <<"full text">>
           /\ result.ret[j].matching_sections = SectionNames

SectionRank(s) ==
    CASE s = "abstract" -> 1 [] s = "results" -> 2 [] s = "conclusion" -> 3 [] OTHER -> 4

\* the number of the result's snippets that come from section s
SnippetsOf(r, s) == Cardinality({i \in DOMAIN r.snippets : r.snippets[i].section = s})

\* C24: a result has at most 3 snippets, at most 2 from one section, in section
\* order, each tagged with one of its matching sections; a section that comes
\* before the section of a snippet of the result has lost none of its snippets
C24_SnippetCap ==
    Searched =>
        \A i \in DOMAIN result.ret :
            LET r == result.ret[i]
                f == SourceOf(r)
            IN /\ Len(r.snippets) <= MaxResultSnippets
               /\ \A a \in DOMAIN r.snippets :
                      /\ r.snippets[a].section \in Range(r.matching_sections)
                      /\ SnippetsOf(r, r.snippets[a].section) <= MaxSnippets
                      /\ \A b \in DOMAIN r.snippets :
                             a < b => SectionRank(r.snippets[a].section)
                                          <= SectionRank(r.snippets[b].section)
                      /\ \A s \in Range(r.matching_sections) :
                             SectionRank(s) < SectionRank(r.snippets[a].section) =>
                                 SnippetsOf(r, s) =
                                     Len(_extract_context_snippets(
                                             SectionText(store[f], s), Lower(result.query),
                                             result.exact_match, MaxSnippets))

\* a result with three matching sections whose third snippet is the first of
\* the results section: the conclusion's snippets were cut
C24_Witness ==
    /\ Searched
    /\ \E i \in DOMAIN result.ret :
           /\ result.ret[i].matching_sections = SectionNames
           /\ Len(result.ret[i].snippets) = MaxResultSnippets
           /\ SnippetsOf(result.ret[i], "abstract") = 2
           /\ SnippetsOf(result.ret[i], "results") = 1

\* what the document in file f alone gives for the search
HitOf(f) ==
    SearchFile(publications_df, store, f, Lower(result.query), result.section,
               result.exact_match, result.nltk_ok)

\* C25: no two results have the same title; of the documents that resolve to
\* one publication the first in scan order that matches gives the result; a
\* document that resolves to no publication gives none
C25_FirstDocumentWins ==
    Searched =>
        /\ \A i, j \in DOMAIN result.ret : i # j => result.ret[i].title # result.ret[j].title
        /\ \A i \in DOMAIN result.ret :
               LET r == result.ret[i]
                   f == SourceOf(r)
               IN /\ f # "none"
                  /\ r.matching_sections = HitOf(f).matching_sections
                  /\ r.snippets = HitOf(f).snippets
                  /\ r.url = Resolved(f).url
        /\ \A k \in DOMAIN probe.cache_files :
               LET f == probe.cache_files[k]
               IN (store[f].kind = "doc" /\ Resolved(f).known /\ MatchesSomewhere(f)) =>
                      \E i \in DOMAIN result.ret : result.ret[i].title = Resolved(f).title

\* two documents that resolve to one publication both match, and what the
\* second in scan order would give differs from the one result
C25_Witness ==
    /\ Searched
    /\ Len(probe.cache_files) = 2
    /\ Len(result.ret) = 1
    /\ \A k \in 1..2 : /\ store[probe.cache_files[k]].kind = "doc"
                        /\ HitOf(probe.cache_files[k]).hit
    /\ HitOf(probe.cache_files[2]).matching_sections # result.ret[1].matching_sections

-----------------------------------------------------------------------------
(* The while loop of _extract_context_snippets in exact mode, one iteration a step *)

SnippetAlphabet == {"a", "b"}

\* the call has been made: start_idx = 0 and no snippet yet
InitSnippets ==
    /\ publications_df = MainCorpus
    /\ store = [f \in CacheFiles |-> Absent]
    /\ knowledge_graph = EmptyGraph
    /\ persisted = NoFile
    /\ saved_graph = EmptyGraph
    /\ result = NoResult
    /\ \E text \in SeqsUpTo(SnippetAlphabet, MaxTextLen),
          query \in SeqsUpTo(SnippetAlphabet, MaxQueryLen) :
           probe = [op |-> "while", text |-> text, query |-> query, start_idx |-> 0,
                    snippets |-> <<>>]

\* one test of the loop condition and, if it holds, one run of the loop body
\* (lines 916 to 933)
WhileStep ==
    /\ probe.op = "while"
    /\ IF Len(probe.snippets) >= MaxSnippets
       THEN probe' = [probe EXCEPT !.op = "returned"]
       ELSE LET idx == Find(probe.text, probe.query, probe.start_idx)
            IN IF idx = -1
               THEN probe' = [probe EXCEPT !.op = "returned"]
               ELSE probe' = [probe EXCEPT
                                 !.snippets = Append(@, ContextSnippet(probe.text, idx,
                                                                       idx + Len(probe.query))),
                                 !.start_idx = idx + Len(probe.query)]
    /\ UNCHANGED <<publications_df, store, knowledge_graph, persisted, saved_graph, result>>

NextSnippets == WhileStep

\* the interpreter goes on running the loop
SpecSnippets == InitSnippets /\ [][NextSnippets]_vars /\ WF_vars(NextSnippets)

-----------------------------------------------------------------------------
(* Properties of the snippet loop *)

\* C30: in exact mode _extract_context_snippets returns for every text and
\* every query, the empty query and overlapping occurrences included, and when
\* the query is a substring of the text it returns between 1 and max_snippets
\* snippets
C30_ExactSnippetsReturn ==
    /\ <>[](probe.op = "returned")
    /\ [](probe.op = "returned" =>
             /\ probe.snippets = _extract_context_snippets(probe.text, probe.query, TRUE,
                                                           MaxSnippets)
             /\ Contains(probe.text, probe.query) =>
                    Len(probe.snippets) >= 1 /\ Len(probe.snippets) <= MaxSnippets)

\* the call returned one snippet for a query that occurs twice in the text,
\* the occurrences overlapping
C30_Witness ==
    /\ probe.op = "returned"
    /\ probe.query = <<"a", "a">> /\ probe.text = <<"a", "a", "a">>
    /\ Len(probe.snippets) = 1

-----------------------------------------------------------------------------
(* The keyword edges of one row: lines 265 to 278 on every bounded document *)

MaxRepeat == 2

RECURSIVE RepeatedWord(_, _)
RepeatedWord(w, n) == IF n = 0 THEN <<>> ELSE <<w>> \o RepeatedWord(w, n - 1)

\* section texts: each of three words up to MaxRepeat times
EdgeTexts ==
    { Join(RepeatedWord(w_growth, a) \o RepeatedWord(w_cell, b) \o RepeatedWord(w_dna, c))
        : a, b, c \in 0..MaxRepeat }

EdgeRow(title, url, abstract, conclusion) ==
    [title |-> title, url |-> url, abstract |-> abstract, conclusion |-> conclusion]

FirstRow == EdgeRow(title1, "u1", abstract1, conclusion1)

AddRowTo(G, r) ==
    AddPublication(G, r.title, r.url, <<>>, Sections(r.abstract, <<>>, r.conclusion, r.title))

\* the graph is empty or holds the first publication of the corpus
InitEdges ==
    /\ publications_df = MainCorpus
    /\ store = EmptyFcn
    /\ persisted = NoFile
    /\ saved_graph = EmptyGraph
    /\ result = [op |-> "none"]
    /\ \/ knowledge_graph = EmptyGraph /\ probe = [op |-> "loop", rows |-> <<>>]
       \/ knowledge_graph = AddRowTo(EmptyGraph, FirstRow)
          /\ probe = [op |-> "loop", rows |-> <<FirstRow>>]

\* one iteration of the loop over the rows, on a document of EdgeTexts
RowStep ==
    /\ probe.op = "loop"
    /\ \E i \in 2..3, abstract \in EdgeTexts, conclusion \in EdgeTexts :
          LET r == EdgeRow(MainCorpus[i].Title, MainCorpus[i].Link, abstract, conclusion)
          IN /\ knowledge_graph' = AddRowTo(knowledge_graph, r)
             /\ probe' = [op |-> "row", rows |-> Append(probe.rows, r)]
    /\ UNCHANGED <<publications_df, store, persisted, saved_graph, result>>

NextEdges == RowStep

SpecEdges == InitEdges /\ [][NextEdges]_vars

\* the extracted keywords of a section that get an edge
EdgeKeywords(text) ==
    {k \in Range(Firsts(extract_keywords(text))) : Len(k) > MinKeywordLen}

\* how often the word occurs in the lower-cased text
Frequency(text, word) == Count(RegexWords(Lower(text)), word)

\* C26: every (publication, keyword) pair has exactly one edge; a keyword
\* extracted from both sections leaves section=conclusion and the conclusion's
\* frequency on it, a keyword extracted from one section that section's frequency.
C26_LaterSectionOverwrites ==
    LET G == knowledge_graph
        pairs == UNION { {<<probe.rows[i].title, k>> :
                             k \in EdgeKeywords(probe.rows[i].abstract)
                                     \cup EdgeKeywords(probe.rows[i].conclusion)}
                         : i \in DOMAIN probe.rows }
    IN /\ Cardinality(DOMAIN G.eattr) = Cardinality(pairs)
       /\ \A i \in DOMAIN probe.rows :
             LET r == probe.rows[i]
                 A == EdgeKeywords(r.abstract)
                 C == EdgeKeywords(r.conclusion)
             IN \A k \in A \cup C :
                   /\ Count(neighbors(G, r.title), k) = 1
                   /\ Adjacent(G, r.title, k)
                   /\ G.eattr[{r.title, k}] =
                         IF k \in C
                         THEN [weight |-> Frequency(r.conclusion, k), section |-> "conclusion"]
                         ELSE [weight |-> Frequency(r.abstract, k), section |-> "abstract"]

\* the row just processed has a keyword twice in its abstract and once in its
\* conclusion, another in its abstract only, and shares a keyword with an
\* earlier publication
C26_Witness ==
    /\ probe.op = "row" /\ Len(probe.rows) = 2
    /\ LET r == probe.rows[2] IN
          /\ w_growth \in EdgeKeywords(r.abstract) \cap EdgeKeywords(r.conclusion)
          /\ Frequency(r.abstract, w_growth) = 2 /\ Frequency(r.conclusion, w_growth) = 1
          /\ w_cell \in EdgeKeywords(r.abstract) \ EdgeKeywords(r.conclusion)
          /\ Adjacent(knowledge_graph, probe.rows[1].title, w_growth)
          /\ knowledge_graph.eattr[{r.title, w_growth}].weight = 1

====
